---------------------------- MODULE Spec2Model ----------------------------
(***************************************************************************)
(* Morgan: priority scoring (priority_engine.py), model routing, the two   *)
(* provider adapters and the engine's batches (ai_engine.py).              *)
(*                                                                         *)
(* Representation.                                                         *)
(*  - A Python str is a sequence of one-character strings; lower() and the *)
(*    "in" substring test are computed on that sequence.                   *)
(*  - A float score is an integer count of 1/10000 (One = 1.0).  A         *)
(*    pattern's weight_adjustment and confidence are counts of 1/100, so   *)
(*    their product is a count of 1/10000.                                 *)
(*  - A normalized weight is a count of 1/WeightOne, where WeightOne is a  *)
(*    common multiple of the weight totals the code can divide by, so the  *)
(*    division is exact.  final_score is a count of 1/FinalOne.            *)
(*  - A datetime is a number of minutes since a Monday 00:00.              *)
(***************************************************************************)
EXTENDS Integers, Sequences, FiniteSets, TLC

VARIABLES
    user_patterns,    \* PriorityCalculator.user_patterns
    default_weights,  \* PriorityCalculator.default_weights
    complex_indicators, \* AIModelRouter.complex_indicators
    usage_stats,      \* AIEngine.usage_stats
    env_openai_key,   \* os.environ holds OPENAI_API_KEY
    batch,            \* the analyze_batch call that is running, with its arguments
    tasks,            \* its analyze_with_semaphore tasks, in the order of the messages
    semaphore,        \* the value of its asyncio.Semaphore
    dispatched,       \* history: the messages handed to analyze_message so far
    last              \* the call that has just returned, with its arguments

vars == <<user_patterns, default_weights, complex_indicators, usage_stats,
          env_openai_key, batch, tasks, semaphore, dispatched, last>>

-----------------------------------------------------------------------------
(* Strings *)

LowerLetters ==
    <<"a","b","c","d","e","f","g","h","i","j","k","l","m",
      "n","o","p","q","r","s","t","u","v","w","x","y","z">>

UpperLetters ==
    <<"A","B","C","D","E","F","G","H","I","J","K","L","M",
      "N","O","P","Q","R","S","T","U","V","W","X","Y","Z">>

LowerChar(c) ==
    IF \E i \in 1..Len(UpperLetters) : UpperLetters[i] = c
    THEN LowerLetters[CHOOSE i \in 1..Len(UpperLetters) : UpperLetters[i] = c]
    ELSE c

\* str.lower()
Lower(s) == [i \in 1..Len(s) |-> LowerChar(s[i])]

\* sub in s
Contains(sub, s) ==
    \E i \in 0..(Len(s) - Len(sub)) :
        \A j \in 1..Len(sub) : s[i + j] = sub[j]

\* any(k in s for k in ks)
ContainsAny(ks, s) == \E n \in 1..Len(ks) : Contains(ks[n], s)

Pad(n) == [i \in 1..n |-> "x"]

-----------------------------------------------------------------------------
(* models.py *)

ActivityType == {"mention", "dm", "thread_reply", "channel"}

WorkType == {"meeting", "review", "info", "decision", "support", "other"}

Priority == {"urgent", "high", "medium", "low"}

\* 1.0 as a score
One == 100 * 100

\* the engine is followed up to this many routed calls
MaxCalls == 2

\* the longest list given to batch_calculate_priorities
MaxBatch == 2

\* the longest list given to analyze_batch
MaxMessages == 2

\* the longest list of analyzed messages given to the todo generator
MaxTodos == 3

\* the largest max_concurrent given to analyze_batch
MaxConcurrent == 2

-----------------------------------------------------------------------------
(* ai_engine.py: AIModelRouter *)

ComplexIndicators ==
    << <<"p","r","o","j","e","c","t">>,
       <<"b","u","d","g","e","t">>,
       <<"d","e","a","d","l","i","n","e">>,
       <<"m","e","e","t","i","n","g">>,
       <<"r","e","v","i","e","w">>,
       <<"a","p","p","r","o","v","a","l">>,
       <<"d","e","c","i","s","i","o","n">>,
       <<"s","t","r","a","t","e","g","y">>,
       <<"p","l","a","n","n","i","n","g">> >>

\* the length rule off by one
should_use_complex_model_ge(message) ==
    LET text == Lower(message.text) IN
    IF Len(message.text) >= 200 THEN TRUE
    ELSE IF ContainsAny(complex_indicators, text) THEN TRUE
    ELSE IF message.mentions_me THEN TRUE
    ELSE IF message.activity_type = "dm" THEN TRUE
    ELSE FALSE

should_use_complex_model(message) ==
    LET text == Lower(message.text) IN
    IF Len(message.text) > 200 THEN TRUE
    ELSE IF ContainsAny(complex_indicators, text) THEN TRUE
    ELSE IF message.mentions_me THEN TRUE
    ELSE IF message.activity_type = "dm" THEN TRUE
    ELSE FALSE

-----------------------------------------------------------------------------
(* datetime *)

\* datetime.hour
Hour(ts) == (ts \div 60) % 24

\* datetime.weekday(): 0 is Monday
Weekday(ts) == (ts \div (24 * 60)) % 7

\* datetime(weekday, hour, minute) of the first week
At(day, hour, minute) == (day * 24 + hour) * 60 + minute

-----------------------------------------------------------------------------
(* priority_engine.py: PriorityCalculator *)

Max(a, b) == IF a >= b THEN a ELSE b

Min(a, b) == IF a <= b THEN a ELSE b

\* max(0.0, min(1.0, x))
Clamp01(x) == Max(0, Min(One, x))

\* PriorityCalculator.__init__: default_weights, in 1/100
DefaultWeights ==
    [sender_authority |-> 30, time_urgency |-> 20,
     content_importance |-> 30, personal_patterns |-> 20]

WorkingHoursStart == 9

WorkingHoursEnd == 18

WeightKeys ==
    {"sender_authority", "time_urgency", "content_importance", "personal_patterns"}

\* 1.0 as a normalized weight: a common multiple of the totals 100, 110, 115
WeightOne == 100 * 11 * 23

\* 1.0 as a final score
FinalOne == One * WeightOne

ExecChannelKeywords ==
    << <<"e","x","e","c">>,
       <<"l","e","a","d","e","r","s","h","i","p">>,
       <<"b","o","a","r","d">> >>

UrgentChannelKeywords ==
    << <<"u","r","g","e","n","t">>,
       <<"c","r","i","t","i","c","a","l">>,
       <<"a","l","e","r","t">> >>

GeneralChannelKeywords ==
    << <<"g","e","n","e","r","a","l">>,
       <<"r","a","n","d","o","m">>,
       <<"o","f","f","-","t","o","p","i","c">> >>

\* the end of the working hours taken as exclusive
_calculate_sender_authority_score_end(message) ==
    LET channel_name == Lower(message.channel_name)
        hour == Hour(message.timestamp)
        activity ==
            IF message.activity_type = "dm" THEN 2000
            ELSE IF message.activity_type = "mention" THEN 3000
            ELSE IF message.activity_type = "thread_reply" THEN 1000
            ELSE 0
        channel ==
            IF ContainsAny(ExecChannelKeywords, channel_name) THEN 3000
            ELSE IF ContainsAny(UrgentChannelKeywords, channel_name) THEN 2500
            ELSE IF ContainsAny(GeneralChannelKeywords, channel_name) THEN -1000
            ELSE 0
        off_hours ==
            IF hour < WorkingHoursStart \/ hour >= WorkingHoursEnd THEN 1000 ELSE 0
    IN  Clamp01(5000 + activity + channel + off_hours)

_calculate_sender_authority_score(message) ==
    LET channel_name == Lower(message.channel_name)
        hour == Hour(message.timestamp)
        activity ==
            IF message.activity_type = "dm" THEN 2000
            ELSE IF message.activity_type = "mention" THEN 3000
            ELSE IF message.activity_type = "thread_reply" THEN 1000
            ELSE 0
        channel ==
            IF ContainsAny(ExecChannelKeywords, channel_name) THEN 3000
            ELSE IF ContainsAny(UrgentChannelKeywords, channel_name) THEN 2500
            ELSE IF ContainsAny(GeneralChannelKeywords, channel_name) THEN -1000
            ELSE 0
        off_hours ==
            IF hour < WorkingHoursStart \/ hour > WorkingHoursEnd THEN 1000 ELSE 0
    IN  Clamp01(5000 + activity + channel + off_hours)

_calculate_time_urgency_score(message, ai_analysis, now) ==
    LET age_minutes == now - message.timestamp
        weekday == Weekday(message.timestamp)
        hour == Hour(message.timestamp)
        age ==
            IF age_minutes < 60 THEN 2000
            ELSE IF age_minutes > 24 * 60 THEN -2000
            ELSE 0
        day ==
            IF weekday >= 5 THEN -1000
            ELSE IF weekday = 0 THEN 1000
            ELSE 0
        time_of_day ==
            IF 9 <= hour /\ hour <= 17 THEN 1000
            ELSE IF hour >= 22 \/ hour <= 6 THEN 2000
            ELSE 0
    IN  Clamp01(ai_analysis.urgency_score + age + day + time_of_day)

high_priority_keywords ==
    << <<"u","r","g","e","n","t">>,
       <<"a","s","a","p">>,
       <<"i","m","m","e","d","i","a","t","e","l","y">>,
       <<"c","r","i","t","i","c","a","l">>,
       <<"e","m","e","r","g","e","n","c","y">>,
       <<"d","e","a","d","l","i","n","e">>,
       <<"b","o","a","r","d">>,
       <<"c","l","i","e","n","t">>,
       <<"c","u","s","t","o","m","e","r">>,
       <<"r","e","v","e","n","u","e">>,
       <<"b","u","d","g","e","t">> >>

\* the keyword boost without its cap
_calculate_content_importance_score_uncapped(message, ai_analysis) ==
    LET text_length == Len(message.text)
        text_lower == Lower(message.text)
        action == IF ai_analysis.action_required THEN 3000 ELSE 0
        work ==
            IF ai_analysis.work_type \in {"decision", "meeting", "review"} THEN 2000
            ELSE IF ai_analysis.work_type \in {"info", "support"} THEN 1000
            ELSE 0
        complexity ==
            IF ai_analysis.complexity = "complex" THEN 1500
            ELSE IF ai_analysis.complexity = "simple" THEN -500
            ELSE 0
        tone ==
            IF ai_analysis.emotional_tone = "urgent" THEN 2000
            ELSE IF ai_analysis.emotional_tone = "frustrated" THEN 1500
            ELSE IF ai_analysis.emotional_tone = "encouraging" THEN 500
            ELSE 0
        length ==
            IF text_length > 500 THEN 1000
            ELSE IF text_length < 20 THEN 500
            ELSE 0
        keyword_count ==
            Cardinality({n \in 1..Len(high_priority_keywords) :
                            Contains(high_priority_keywords[n], text_lower)})
    IN  Clamp01(5000 + action + work + complexity + tone + length + keyword_count * 500)

_calculate_content_importance_score(message, ai_analysis) ==
    LET text_length == Len(message.text)
        text_lower == Lower(message.text)
        action == IF ai_analysis.action_required THEN 3000 ELSE 0
        work ==
            IF ai_analysis.work_type \in {"decision", "meeting", "review"} THEN 2000
            ELSE IF ai_analysis.work_type \in {"info", "support"} THEN 1000
            ELSE 0
        complexity ==
            IF ai_analysis.complexity = "complex" THEN 1500
            ELSE IF ai_analysis.complexity = "simple" THEN -500
            ELSE 0
        tone ==
            IF ai_analysis.emotional_tone = "urgent" THEN 2000
            ELSE IF ai_analysis.emotional_tone = "frustrated" THEN 1500
            ELSE IF ai_analysis.emotional_tone = "encouraging" THEN 500
            ELSE 0
        length ==
            IF text_length > 500 THEN 1000
            ELSE IF text_length < 20 THEN 500
            ELSE 0
        keyword_count ==
            Cardinality({n \in 1..Len(high_priority_keywords) :
                            Contains(high_priority_keywords[n], text_lower)})
    IN  Clamp01(5000 + action + work + complexity + tone + length
                + Min(2000, keyword_count * 500))

StrMorning == <<"m","o","r","n","i","n","g">>

StrAfternoon == <<"a","f","t","e","r","n","o","o","n">>

StrEvening == <<"e","v","e","n","i","n","g">>

\* WorkType(...).value as a str
WorkTypeValue ==
    [meeting |-> <<"m","e","e","t","i","n","g">>,
     review |-> <<"r","e","v","i","e","w">>,
     info |-> <<"i","n","f","o">>,
     decision |-> <<"d","e","c","i","s","i","o","n">>,
     support |-> <<"s","u","p","p","o","r","t">>,
     other |-> <<"o","t","h","e","r">>]

\* the evening window closed at 22
_pattern_matches_evening_le(pattern, message, ai_analysis) ==
    LET pattern_type == pattern.pattern_type
        pattern_value == Lower(pattern.pattern_value)
        hour == Hour(message.timestamp)
    IN  IF pattern_type = "sender" THEN Contains(pattern_value, Lower(message.username))
        ELSE IF pattern_type = "channel"
            THEN Contains(pattern_value, Lower(message.channel_name))
        ELSE IF pattern_type = "keyword" THEN Contains(pattern_value, Lower(message.text))
        ELSE IF pattern_type = "work_type"
            THEN pattern_value = WorkTypeValue[ai_analysis.work_type]
        ELSE IF pattern_type = "time"
            THEN IF pattern_value = StrMorning /\ 6 <= hour /\ hour < 12 THEN TRUE
                 ELSE IF pattern_value = StrAfternoon /\ 12 <= hour /\ hour < 18 THEN TRUE
                 ELSE IF pattern_value = StrEvening /\ 18 <= hour /\ hour <= 22 THEN TRUE
                 ELSE FALSE
        ELSE FALSE

_pattern_matches(pattern, message, ai_analysis) ==
    LET pattern_type == pattern.pattern_type
        pattern_value == Lower(pattern.pattern_value)
        hour == Hour(message.timestamp)
    IN  IF pattern_type = "sender" THEN Contains(pattern_value, Lower(message.username))
        ELSE IF pattern_type = "channel"
            THEN Contains(pattern_value, Lower(message.channel_name))
        ELSE IF pattern_type = "keyword" THEN Contains(pattern_value, Lower(message.text))
        ELSE IF pattern_type = "work_type"
            THEN pattern_value = WorkTypeValue[ai_analysis.work_type]
        ELSE IF pattern_type = "time"
            THEN IF pattern_value = StrMorning /\ 6 <= hour /\ hour < 12 THEN TRUE
                 ELSE IF pattern_value = StrAfternoon /\ 12 <= hour /\ hour < 18 THEN TRUE
                 ELSE IF pattern_value = StrEvening /\ 18 <= hour /\ hour < 22 THEN TRUE
                 ELSE FALSE
        ELSE FALSE

\* the loop of _apply_personal_patterns over patterns[1..n]
RECURSIVE PatternSum(_, _, _, _)
PatternSum(patterns, n, message, ai_analysis) ==
    IF n = 0 THEN 0
    ELSE PatternSum(patterns, n - 1, message, ai_analysis)
         + (IF _pattern_matches(patterns[n], message, ai_analysis)
            THEN patterns[n].weight_adjustment * patterns[n].confidence
            ELSE 0)

\* only the first matching pattern applied
_apply_personal_patterns_first(self_patterns, message, ai_analysis) ==
    LET matching == {i \in 1..Len(self_patterns) :
                        _pattern_matches(self_patterns[i], message, ai_analysis)}
        first == CHOOSE i \in matching : \A j \in matching : i <= j
    IN  IF matching = {} THEN 5000
        ELSE Clamp01(5000 + self_patterns[first].weight_adjustment
                            * self_patterns[first].confidence)

\* the sum returned without the clamp
_apply_personal_patterns_unclamped(self_patterns, message, ai_analysis) ==
    5000 + PatternSum(self_patterns, Len(self_patterns), message, ai_analysis)

\* self_patterns is self.user_patterns
_apply_personal_patterns(self_patterns, message, ai_analysis) ==
    Clamp01(5000 + PatternSum(self_patterns, Len(self_patterns), message, ai_analysis))

\* the adjusted weights without the division by their total
_get_adjusted_weights_unnormalized(self_weights, message) ==
    LET weights ==
            IF message.activity_type = "dm"
            THEN [self_weights EXCEPT !.sender_authority = @ + 10,
                                      !.time_urgency = @ + 5]
            ELSE IF message.activity_type = "mention"
            THEN [self_weights EXCEPT !.content_importance = @ + 10]
            ELSE IF message.activity_type = "channel"
            THEN [self_weights EXCEPT !.personal_patterns = @ + 10]
            ELSE self_weights
    IN  [key \in WeightKeys |-> (weights[key] * WeightOne) \div 100]

\* the direct-message adjustment left out
_get_adjusted_weights_no_dm(self_weights, message) ==
    LET weights ==
            IF message.activity_type = "mention"
            THEN [self_weights EXCEPT !.content_importance = @ + 10]
            ELSE IF message.activity_type = "channel"
            THEN [self_weights EXCEPT !.personal_patterns = @ + 10]
            ELSE self_weights
        total == weights.sender_authority + weights.time_urgency
                 + weights.content_importance + weights.personal_patterns
    IN  [key \in WeightKeys |-> (weights[key] * WeightOne) \div total]

\* self_weights is self.default_weights; the result is in 1/WeightOne
_get_adjusted_weights(self_weights, message) ==
    LET weights ==
            IF message.activity_type = "dm"
            THEN [self_weights EXCEPT !.sender_authority = @ + 10,
                                      !.time_urgency = @ + 5]
            ELSE IF message.activity_type = "mention"
            THEN [self_weights EXCEPT !.content_importance = @ + 10]
            ELSE IF message.activity_type = "channel"
            THEN [self_weights EXCEPT !.personal_patterns = @ + 10]
            ELSE self_weights
        total == weights.sender_authority + weights.time_urgency
                 + weights.content_importance + weights.personal_patterns
    IN  [key \in WeightKeys |-> (weights[key] * WeightOne) \div total]

\* the bounds exclusive
_score_to_priority_gt(score) ==
    IF score > 8 * (FinalOne \div 10) THEN "urgent"
    ELSE IF score > 6 * (FinalOne \div 10) THEN "high"
    ELSE IF score > 4 * (FinalOne \div 10) THEN "medium"
    ELSE "low"

\* score is in 1/FinalOne
_score_to_priority(score) ==
    IF score >= 8 * (FinalOne \div 10) THEN "urgent"
    ELSE IF score >= 6 * (FinalOne \div 10) THEN "high"
    ELSE IF score >= 4 * (FinalOne \div 10) THEN "medium"
    ELSE "low"

\* the focus block from 30 minutes on
_suggest_action_time_ge(score, message, ai_analysis) ==
    IF score >= 8 * (FinalOne \div 10) THEN "within 30 minutes"
    ELSE IF score >= 6 * (FinalOne \div 10)
        THEN IF ai_analysis.estimated_time_minutes >= 30
             THEN "today, focus block"
             ELSE "today, within 1-2 hours"
    ELSE IF score >= 4 * (FinalOne \div 10) THEN "this week"
    ELSE "whenever convenient"

_suggest_action_time(score, message, ai_analysis) ==
    IF score >= 8 * (FinalOne \div 10) THEN "within 30 minutes"
    ELSE IF score >= 6 * (FinalOne \div 10)
        THEN IF ai_analysis.estimated_time_minutes > 30
             THEN "today, focus block"
             ELSE "today, within 1-2 hours"
    ELSE IF score >= 4 * (FinalOne \div 10) THEN "this week"
    ELSE "whenever convenient"

FactorNames == <<"sender", "time", "content", "personal">>

\* sorted(scores.items(), key=score, reverse=True)[k]: a stable sort, so equal
\* scores keep the order sender, time, content, personal
Ranked(scores, among) ==
    CHOOSE i \in among :
        \A j \in among : scores[i] > scores[j] \/ (scores[i] = scores[j] /\ i <= j)

_generate_reasoning(sender_score, time_score, content_score, personal_score) ==
    LET scores == <<sender_score, time_score, content_score, personal_score>>
        top == Ranked(scores, 1..4)
        second == Ranked(scores, (1..4) \ {top})
        first_reason ==
            IF scores[top] > 7000
            THEN << [factor |-> FactorNames[top], score |-> scores[top]] >>
            ELSE <<>>
        second_reason ==
            IF scores[second] > 6000
            THEN << [factor |-> FactorNames[second], score |-> scores[second]] >>
            ELSE <<>>
        reasons == first_reason \o second_reason
    IN  IF reasons = <<>> THEN << [factor |-> "general", score |-> 0] >> ELSE reasons

\* models.py PriorityScore(...): pydantic checks ge=0, le=1 and raises otherwise
PriorityScore(fields) ==
    IF /\ 0 <= fields.final_score /\ fields.final_score <= FinalOne
       /\ \A k \in {"sender_authority_score", "time_urgency_score",
                    "content_importance_score", "personal_weight_score"} :
              0 <= fields[k] /\ fields[k] <= One
    THEN [raised |-> "no"] @@ fields
    ELSE [raised |-> "ValidationError"]

\* Optional[List[UserPattern]]
NoneArg == [is_none |-> TRUE, value |-> <<>>]

Some(list) == [is_none |-> FALSE, value |-> list]

\* "if user_patterns: self.user_patterns = user_patterns"
PatternsAfter(self_patterns, supplied) ==
    IF ~supplied.is_none /\ Len(supplied.value) > 0 THEN supplied.value ELSE self_patterns

\* the value calculate_priority returns once self.user_patterns is self_patterns
CalculatePriorityScore(self_patterns, self_weights, message, ai_analysis, now) ==
    LET sender_score == _calculate_sender_authority_score(message)
        time_score == _calculate_time_urgency_score(message, ai_analysis, now)
        content_score == _calculate_content_importance_score(message, ai_analysis)
        personal_score == _apply_personal_patterns(self_patterns, message, ai_analysis)
        weights == _get_adjusted_weights(self_weights, message)
        weighted == sender_score * weights["sender_authority"]
                    + time_score * weights["time_urgency"]
                    + content_score * weights["content_importance"]
                    + personal_score * weights["personal_patterns"]
        final_score == Max(0, Min(FinalOne, weighted))
    IN  PriorityScore(
            [final_score |-> final_score,
             priority_level |-> _score_to_priority(final_score),
             sender_authority_score |-> sender_score,
             time_urgency_score |-> time_score,
             content_importance_score |-> content_score,
             personal_weight_score |-> personal_score,
             recommended_action_time |->
                 _suggest_action_time(final_score, message, ai_analysis),
             reasoning |-> _generate_reasoning(sender_score, time_score,
                                               content_score, personal_score)])

NoCall == [op |-> "none"]

\* no analyze_batch call is running
NoBatch == [running |-> FALSE]

\* the context adjustment written into self.default_weights
calculate_priority_in_place(message, ai_analysis, supplied, now) ==
    /\ last = NoCall
    /\ user_patterns' = PatternsAfter(user_patterns, supplied)
    /\ default_weights' =
           IF message.activity_type = "dm"
           THEN [default_weights EXCEPT !.sender_authority = @ + 10,
                                        !.time_urgency = @ + 5]
           ELSE IF message.activity_type = "mention"
           THEN [default_weights EXCEPT !.content_importance = @ + 10]
           ELSE IF message.activity_type = "channel"
           THEN [default_weights EXCEPT !.personal_patterns = @ + 10]
           ELSE default_weights
    /\ last' = [op |-> "calculate_priority",
                message |-> message,
                ai_analysis |-> ai_analysis,
                supplied |-> supplied,
                now |-> now,
                weights |-> _get_adjusted_weights(default_weights, message),
                result |-> CalculatePriorityScore(user_patterns', default_weights,
                                                  message, ai_analysis, now)]
    /\ UNCHANGED <<complex_indicators, usage_stats, env_openai_key,
                   batch, tasks, semaphore, dispatched>>

calculate_priority(message, ai_analysis, supplied, now) ==
    /\ last = NoCall
    /\ user_patterns' = PatternsAfter(user_patterns, supplied)
    /\ last' = [op |-> "calculate_priority",
                message |-> message,
                ai_analysis |-> ai_analysis,
                supplied |-> supplied,
                now |-> now,
                weights |-> _get_adjusted_weights(default_weights, message),
                result |-> CalculatePriorityScore(user_patterns', default_weights,
                                                  message, ai_analysis, now)]
    /\ UNCHANGED <<default_weights, complex_indicators, usage_stats, env_openai_key,
                   batch, tasks, semaphore, dispatched>>

\* items is a list of [message, ai_analysis]
batch_calculate_priorities(items, supplied, now) ==
    /\ last = NoCall
    /\ user_patterns' = PatternsAfter(user_patterns, supplied)
    /\ last' = [op |-> "batch_calculate_priorities",
                items |-> items,
                supplied |-> supplied,
                now |-> now,
                result |-> [i \in 1..Len(items) |->
                               CalculatePriorityScore(user_patterns', default_weights,
                                                      items[i].message,
                                                      items[i].ai_analysis, now)]]
    /\ UNCHANGED <<default_weights, complex_indicators, usage_stats, env_openai_key,
                   batch, tasks, semaphore, dispatched>>

\* a call of one factor method of the calculator; none of them writes a field
SenderAuthority(message) ==
    /\ last = NoCall
    /\ last' = [op |-> "_calculate_sender_authority_score",
                message |-> message,
                result |-> _calculate_sender_authority_score(message)]
    /\ UNCHANGED <<user_patterns, default_weights, complex_indicators, usage_stats,
                   env_openai_key, batch, tasks, semaphore, dispatched>>

TimeUrgency(message, ai_analysis, now) ==
    /\ last = NoCall
    /\ last' = [op |-> "_calculate_time_urgency_score",
                message |-> message,
                ai_analysis |-> ai_analysis,
                now |-> now,
                result |-> _calculate_time_urgency_score(message, ai_analysis, now)]
    /\ UNCHANGED <<user_patterns, default_weights, complex_indicators, usage_stats,
                   env_openai_key, batch, tasks, semaphore, dispatched>>

ContentImportance(message, ai_analysis) ==
    /\ last = NoCall
    /\ last' = [op |-> "_calculate_content_importance_score",
                message |-> message,
                ai_analysis |-> ai_analysis,
                result |-> _calculate_content_importance_score(message, ai_analysis)]
    /\ UNCHANGED <<user_patterns, default_weights, complex_indicators, usage_stats,
                   env_openai_key, batch, tasks, semaphore, dispatched>>

PatternMatches(pattern, message, ai_analysis) ==
    /\ last = NoCall
    /\ last' = [op |-> "_pattern_matches",
                pattern |-> pattern,
                message |-> message,
                ai_analysis |-> ai_analysis,
                result |-> _pattern_matches(pattern, message, ai_analysis)]
    /\ UNCHANGED <<user_patterns, default_weights, complex_indicators, usage_stats,
                   env_openai_key, batch, tasks, semaphore, dispatched>>

\* the caller takes the returned value
Return ==
    /\ last # NoCall
    /\ last' = NoCall
    /\ UNCHANGED <<user_patterns, default_weights, complex_indicators, usage_stats,
                   env_openai_key, batch, tasks, semaphore, dispatched>>

-----------------------------------------------------------------------------
(* ai_engine.py: OpenAIClient, ClaudeClient, AIEngine *)

\* os.getenv("DEFAULT_AI_MODEL", "gpt-4o-mini")
OpenAIModel == "gpt-4o-mini"

\* os.getenv("COMPLEX_AI_MODEL", "claude-3-5-sonnet-20241022")
ClaudeModel == "claude-3-5-sonnet-20241022"

\* analysis_data.get(key, default)
Get(analysis_data, key, default) ==
    IF key \in DOMAIN analysis_data THEN analysis_data[key] ELSE default

\* a model without Field bounds
AIAnalysis_unvalidated(fields) == [raised |-> "no"] @@ fields

\* models.py AIAnalysis(...): pydantic checks the Field bounds and raises otherwise
AIAnalysis(fields) ==
    IF /\ 0 <= fields.urgency_score /\ fields.urgency_score <= One
       /\ fields.estimated_time_minutes >= 0
       /\ 0 <= fields.confidence /\ fields.confidence <= One
    THEN [raised |-> "no"] @@ fields
    ELSE [raised |-> "ValidationError"]

FallbackActionWords ==
    << <<"?">>,
       <<"p","l","e","a","s","e">>,
       <<"c","a","n"," ","y","o","u">>,
       <<"c","o","u","l","d"," ","y","o","u">>,
       <<"r","e","v","i","e","w">>,
       <<"c","h","e","c","k">>,
       <<"c","o","n","f","i","r","m">> >>

FallbackUrgentWords ==
    << <<"u","r","g","e","n","t">>,
       <<"a","s","a","p">>,
       <<"U+AE09","U+D568">> >>

\* mentions-me taking precedence over the urgency words
_create_fallback_analysis_mention_first(message, error_type) ==
    LET text_lower == Lower(message.text)
        action_required == ContainsAny(FallbackActionWords, text_lower)
        urgency_score ==
            IF message.mentions_me THEN 7000
            ELSE IF ContainsAny(FallbackUrgentWords, text_lower) THEN 9000
            ELSE 3000
    IN  AIAnalysis(
            [action_required |-> action_required,
             urgency_score |-> urgency_score,
             complexity |-> "simple",
             work_type |-> "other",
             emotional_tone |-> "neutral",
             estimated_time_minutes |-> 15,
             confidence |-> 3000,
             reasoning |-> <<"Fallback analysis due to", error_type>>,
             detected_keywords |-> <<>>,
             model_used |-> "fallback-heuristic"])

_create_fallback_analysis(message, error_type) ==
    LET text_lower == Lower(message.text)
        action_required == ContainsAny(FallbackActionWords, text_lower)
        urgency_score ==
            IF ContainsAny(FallbackUrgentWords, text_lower) THEN 9000
            ELSE IF message.mentions_me THEN 7000
            ELSE 3000
    IN  AIAnalysis(
            [action_required |-> action_required,
             urgency_score |-> urgency_score,
             complexity |-> "simple",
             work_type |-> "other",
             emotional_tone |-> "neutral",
             estimated_time_minutes |-> 15,
             confidence |-> 3000,
             reasoning |-> <<"Fallback analysis due to", error_type>>,
             detected_keywords |-> <<>>,
             model_used |-> "fallback-heuristic"])

\* the try block of an adapter: the provider call, json.loads, WorkType(...) and
\* AIAnalysis(...); any exception leaves [raised |-> its name]
ParseResponse(response, model, complexity, minutes, confidence, reasoning) ==
    IF response.kind = "error" THEN [raised |-> "APIError"]
    ELSE IF response.kind = "text" THEN [raised |-> "JSONDecodeError"]
    ELSE LET analysis_data == response.data
             work_type == Get(analysis_data, "work_type", "other")
         IN  IF work_type \notin WorkType THEN [raised |-> "ValueError"]
             ELSE AIAnalysis(
                 [action_required |-> Get(analysis_data, "action_required", FALSE),
                  urgency_score |-> Get(analysis_data, "urgency_score", 5000),
                  complexity |-> Get(analysis_data, "complexity", complexity),
                  work_type |-> work_type,
                  emotional_tone |-> Get(analysis_data, "emotional_tone", "neutral"),
                  estimated_time_minutes |->
                      Get(analysis_data, "estimated_time_minutes", minutes),
                  confidence |-> Get(analysis_data, "confidence", confidence),
                  reasoning |-> Get(analysis_data, "reasoning", reasoning),
                  detected_keywords |-> Get(analysis_data, "detected_keywords", <<>>),
                  model_used |-> model])

\* OpenAIClient.quick_classify: the value returned for the provider's response
quick_classify(message, response) ==
    LET parsed == ParseResponse(response, OpenAIModel, "simple", 10, 7000,
                                <<"Quick AI classification">>)
    IN  IF parsed.raised = "no" THEN parsed
        ELSE _create_fallback_analysis(message, "openai-error")

\* OpenAIClient.__init__() with no api_key argument
OpenAIClientInit(env_key) ==
    IF env_key THEN [raised |-> "no"] ELSE [raised |-> "ValueError"]

\* the expensive tier filling in the cheap tier's defaults
deep_analyze_cheap_defaults(env_key, message, response, openai_response) ==
    LET parsed == ParseResponse(response, ClaudeModel, "simple", 10, 7000,
                                <<"Quick AI classification">>)
    IN  IF parsed.raised = "no" THEN parsed
        ELSE IF OpenAIClientInit(env_key).raised # "no" THEN OpenAIClientInit(env_key)
        ELSE quick_classify(message, openai_response)

\* ClaudeClient.deep_analyze: the value returned, or the exception that leaves it
deep_analyze(env_key, message, response, openai_response) ==
    LET parsed == ParseResponse(response, ClaudeModel, "medium", 20, 8000,
                                <<"Deep Claude analysis">>)
    IN  IF parsed.raised = "no" THEN parsed
        ELSE IF OpenAIClientInit(env_key).raised # "no" THEN OpenAIClientInit(env_key)
        ELSE quick_classify(message, openai_response)

\* the provider calls quick_classify makes, in order
quick_classify_calls(message, response) == <<"openai">>

\* the provider calls deep_analyze makes, in order
deep_analyze_calls(env_key, message, response, openai_response) ==
    IF ParseResponse(response, ClaudeModel, "medium", 20, 8000,
                     <<"Deep Claude analysis">>).raised = "no"
    THEN <<"claude">>
    ELSE IF OpenAIClientInit(env_key).raised # "no" THEN <<"claude">>
    ELSE <<"claude">> \o quick_classify_calls(message, openai_response)

\* a direct call of AIModelRouter.should_use_complex_model
SelectTier(message) ==
    /\ last = NoCall
    /\ last' = [op |-> "should_use_complex_model",
                message |-> message,
                result |-> should_use_complex_model(message)]
    /\ UNCHANGED <<user_patterns, default_weights, complex_indicators, usage_stats,
                   env_openai_key, batch, tasks, semaphore, dispatched>>

\* a call of quick_classify on an OpenAIClient
QuickClassify(message, response) ==
    /\ last = NoCall
    /\ last' = [op |-> "quick_classify",
                message |-> message,
                response |-> response,
                external_calls |-> quick_classify_calls(message, response),
                result |-> quick_classify(message, response)]
    /\ UNCHANGED <<user_patterns, default_weights, complex_indicators, usage_stats,
                   env_openai_key, batch, tasks, semaphore, dispatched>>

\* a call of deep_analyze on a ClaudeClient
DeepAnalyze(message, response, openai_response) ==
    /\ last = NoCall
    /\ last' = [op |-> "deep_analyze",
                message |-> message,
                response |-> response,
                openai_response |-> openai_response,
                external_calls |->
                    deep_analyze_calls(env_openai_key, message, response, openai_response),
                result |-> deep_analyze(env_openai_key, message, response,
                                        openai_response)]
    /\ UNCHANGED <<user_patterns, default_weights, complex_indicators, usage_stats,
                   env_openai_key, batch, tasks, semaphore, dispatched>>

\* AIEngine.analyze_message, called on its own (no batch is running)
analyze_message(message, response, openai_response) ==
    /\ last = NoCall
    /\ batch = NoBatch
    /\ usage_stats.openai_calls + usage_stats.claude_calls < MaxCalls
    /\ dispatched' = dispatched + 1
    /\ IF should_use_complex_model(message)
       THEN /\ usage_stats' = [usage_stats EXCEPT !.claude_calls = @ + 1]
            /\ last' = [op |-> "analyze_message",
                        message |-> message,
                        response |-> response,
                        openai_response |-> openai_response,
                        external_calls |->
                            deep_analyze_calls(env_openai_key, message, response,
                                               openai_response),
                        result |-> deep_analyze(env_openai_key, message, response,
                                                openai_response)]
       ELSE /\ usage_stats' = [usage_stats EXCEPT !.openai_calls = @ + 1]
            /\ last' = [op |-> "analyze_message",
                        message |-> message,
                        response |-> response,
                        openai_response |-> openai_response,
                        external_calls |-> quick_classify_calls(message, openai_response),
                        result |-> quick_classify(message, openai_response)]
    /\ UNCHANGED <<user_patterns, default_weights, complex_indicators, env_openai_key,
                   batch, tasks, semaphore>>

\* the environment of the process changes between two calls: OPENAI_API_KEY is
\* set or removed after the adapters were constructed; OpenAIClient() reads it
\* again on every downgrade
SetEnv(present) ==
    /\ last = NoCall
    /\ batch = NoBatch
    /\ env_openai_key # present
    /\ env_openai_key' = present
    /\ UNCHANGED <<user_patterns, default_weights, complex_indicators, usage_stats,
                   batch, tasks, semaphore, dispatched, last>>

\* a provider that was not asked
NotAsked == [kind |-> "none"]

\* the value a task holds before its analysis is there
Pending == [raised |-> "pending"]

\* analyze_with_semaphore(message), created and not yet run; order is the task's
\* place in the order the tasks finish in, 0 while it has not finished
Task(message) ==
    [message |-> message, pc |-> "created", response |-> NotAsked,
     openai_response |-> NotAsked, key |-> TRUE, result |-> Pending, order |-> 0]

\* the tasks that have finished
Done(ts) == {i \in 1..Len(ts) : ts[i].pc = "done"}

\* the tasks that hold the semaphore
InFlight(ts) == {i \in 1..Len(ts) : ts[i].pc = "in_flight"}

\* a semaphore that holds at least one permit
StartBatch_at_least_one(messages, max_concurrent) ==
    /\ last = NoCall
    /\ batch = NoBatch
    /\ usage_stats.openai_calls + usage_stats.claude_calls + Len(messages) <= MaxCalls
    /\ IF max_concurrent < 0
       THEN /\ last' = [op |-> "analyze_batch",
                        messages |-> messages,
                        max_concurrent |-> max_concurrent,
                        calls_before |-> usage_stats.openai_calls
                                             + usage_stats.claude_calls,
                        tasks |-> <<>>,
                        raised |-> "ValueError",
                        result |-> <<>>]
            /\ UNCHANGED <<batch, tasks, semaphore>>
       ELSE /\ batch' = [running |-> TRUE,
                         messages |-> messages,
                         max_concurrent |-> max_concurrent,
                         calls_before |-> usage_stats.openai_calls
                                              + usage_stats.claude_calls]
            /\ tasks' = [i \in 1..Len(messages) |-> Task(messages[i])]
            /\ semaphore' = Max(1, max_concurrent)
            /\ UNCHANGED last
    /\ UNCHANGED <<user_patterns, default_weights, complex_indicators, usage_stats,
                   env_openai_key, dispatched>>

\* AIEngine.analyze_batch up to gather: the semaphore and one task per message.
\* asyncio.Semaphore(value) raises ValueError for a negative value.
StartBatch(messages, max_concurrent) ==
    /\ last = NoCall
    /\ batch = NoBatch
    /\ usage_stats.openai_calls + usage_stats.claude_calls + Len(messages) <= MaxCalls
    /\ IF max_concurrent < 0
       THEN /\ last' = [op |-> "analyze_batch",
                        messages |-> messages,
                        max_concurrent |-> max_concurrent,
                        calls_before |-> usage_stats.openai_calls
                                             + usage_stats.claude_calls,
                        tasks |-> <<>>,
                        raised |-> "ValueError",
                        result |-> <<>>]
            /\ UNCHANGED <<batch, tasks, semaphore>>
       ELSE /\ batch' = [running |-> TRUE,
                         messages |-> messages,
                         max_concurrent |-> max_concurrent,
                         calls_before |-> usage_stats.openai_calls
                                              + usage_stats.claude_calls]
            /\ tasks' = [i \in 1..Len(messages) |-> Task(messages[i])]
            /\ semaphore' = max_concurrent
            /\ UNCHANGED last
    /\ UNCHANGED <<user_patterns, default_weights, complex_indicators, usage_stats,
                   env_openai_key, dispatched>>

\* a task that enters without waiting for the semaphore
Admit_ungated(i) ==
    /\ batch # NoBatch
    /\ i \in 1..Len(tasks)
    /\ tasks[i].pc = "created"
    /\ \A j \in 1..(i - 1) : tasks[j].pc # "created"
    /\ semaphore' = semaphore - 1
    /\ usage_stats' =
           IF should_use_complex_model(tasks[i].message)
           THEN [usage_stats EXCEPT !.claude_calls = @ + 1]
           ELSE [usage_stats EXCEPT !.openai_calls = @ + 1]
    /\ dispatched' = dispatched + 1
    /\ tasks' = [tasks EXCEPT ![i].pc = "in_flight"]
    /\ UNCHANGED <<user_patterns, default_weights, complex_indicators, env_openai_key,
                   batch, last>>

\* an increment that is lost while another call is in flight
Admit_lost_update(i) ==
    /\ batch # NoBatch
    /\ i \in 1..Len(tasks)
    /\ tasks[i].pc = "created"
    /\ \A j \in 1..(i - 1) : tasks[j].pc # "created"
    /\ semaphore > 0
    /\ semaphore' = semaphore - 1
    /\ usage_stats' =
           IF InFlight(tasks) # {} THEN usage_stats
           ELSE IF should_use_complex_model(tasks[i].message)
           THEN [usage_stats EXCEPT !.claude_calls = @ + 1]
           ELSE [usage_stats EXCEPT !.openai_calls = @ + 1]
    /\ dispatched' = dispatched + 1
    /\ tasks' = [tasks EXCEPT ![i].pc = "in_flight"]
    /\ UNCHANGED <<user_patterns, default_weights, complex_indicators, env_openai_key,
                   batch, last>>

\* task i of the batch passes "async with semaphore" and runs analyze_message up
\* to the provider call: the route is chosen and its counter incremented.  The
\* event loop runs the tasks in the order gather created them, and the semaphore
\* wakes its waiters in that order.  The provider call is where the task can be
\* suspended; with the blocking clients of the source it never is, which is the
\* schedule in which Finish(i) directly follows Admit(i).
Admit(i) ==
    /\ batch # NoBatch
    /\ i \in 1..Len(tasks)
    /\ tasks[i].pc = "created"
    /\ \A j \in 1..(i - 1) : tasks[j].pc # "created"
    /\ semaphore > 0
    /\ semaphore' = semaphore - 1
    /\ usage_stats' =
           IF should_use_complex_model(tasks[i].message)
           THEN [usage_stats EXCEPT !.claude_calls = @ + 1]
           ELSE [usage_stats EXCEPT !.openai_calls = @ + 1]
    /\ dispatched' = dispatched + 1
    /\ tasks' = [tasks EXCEPT ![i].pc = "in_flight"]
    /\ UNCHANGED <<user_patterns, default_weights, complex_indicators, env_openai_key,
                   batch, last>>

\* a task whose call raised leaves without releasing the semaphore
Finish_keeps_permit_on_raise(i, response, openai_response) ==
    /\ batch # NoBatch
    /\ i \in 1..Len(tasks)
    /\ tasks[i].pc = "in_flight"
    /\ LET message == tasks[i].message
           complex == should_use_complex_model(message)
           downgrade ==
               complex /\ ParseResponse(response, ClaudeModel, "medium", 20, 8000,
                                        <<"Deep Claude analysis">>).raised # "no"
           result ==
               IF complex
               THEN deep_analyze(env_openai_key, message, response, openai_response)
               ELSE quick_classify(message, openai_response)
       IN  /\ tasks' = [tasks EXCEPT
                           ![i].pc = "done",
                           ![i].response = IF complex THEN response ELSE NotAsked,
                           ![i].openai_response =
                               IF ~complex \/ (downgrade /\ env_openai_key)
                               THEN openai_response ELSE NotAsked,
                           ![i].key = IF downgrade THEN env_openai_key ELSE TRUE,
                           ![i].result = result,
                           ![i].order = Cardinality(Done(tasks)) + 1]
           /\ semaphore' = IF result.raised = "no" THEN semaphore + 1 ELSE semaphore
    /\ UNCHANGED <<user_patterns, default_weights, complex_indicators, usage_stats,
                   env_openai_key, batch, dispatched, last>>

\* the provider answers task i: the adapter returns its analysis or raises, the
\* task leaves "async with semaphore" and is done.  The task keeps the answers
\* its adapter consumed.
Finish(i, response, openai_response) ==
    /\ batch # NoBatch
    /\ i \in 1..Len(tasks)
    /\ tasks[i].pc = "in_flight"
    /\ LET message == tasks[i].message
           complex == should_use_complex_model(message)
           downgrade ==
               complex /\ ParseResponse(response, ClaudeModel, "medium", 20, 8000,
                                        <<"Deep Claude analysis">>).raised # "no"
           result ==
               IF complex
               THEN deep_analyze(env_openai_key, message, response, openai_response)
               ELSE quick_classify(message, openai_response)
       IN  tasks' = [tasks EXCEPT
                        ![i].pc = "done",
                        ![i].response = IF complex THEN response ELSE NotAsked,
                        ![i].openai_response =
                            IF ~complex \/ (downgrade /\ env_openai_key)
                            THEN openai_response ELSE NotAsked,
                        ![i].key = IF downgrade THEN env_openai_key ELSE TRUE,
                        ![i].result = result,
                        ![i].order = Cardinality(Done(tasks)) + 1]
    /\ semaphore' = semaphore + 1
    /\ UNCHANGED <<user_patterns, default_weights, complex_indicators, usage_stats,
                   env_openai_key, batch, dispatched, last>>

\* every gathered result, exceptions included
successful_results_all(ts) ==
    [i \in 1..Len(ts) |-> <<ts[i].message, ts[i].result>>]

\* the results in the order the tasks finished in
successful_results_as_completed(ts) ==
    LET IsTuple(t) == t.result.raised = "no"
        by_order == [n \in 1..Len(ts) |-> ts[CHOOSE i \in 1..Len(ts) : ts[i].order = n]]
        kept == SelectSeq(by_order, IsTuple)
    IN  [i \in 1..Len(kept) |-> <<kept[i].message, kept[i].result>>]

\* the loop over the gathered results: a tuple is kept, an exception is dropped
successful_results(ts) ==
    LET IsTuple(t) == t.result.raised = "no"
        kept == SelectSeq(ts, IsTuple)
    IN  [i \in 1..Len(kept) |-> <<kept[i].message, kept[i].result>>]

\* gather has every task's result or exception: analyze_batch returns
ReturnBatch ==
    /\ batch # NoBatch
    /\ last = NoCall
    /\ \A i \in 1..Len(tasks) : tasks[i].pc = "done"
    /\ last' = [op |-> "analyze_batch",
                messages |-> batch.messages,
                max_concurrent |-> batch.max_concurrent,
                calls_before |-> batch.calls_before,
                tasks |-> tasks,
                raised |-> "no",
                result |-> successful_results(tasks)]
    /\ batch' = NoBatch
    /\ tasks' = <<>>
    /\ semaphore' = 0
    /\ UNCHANGED <<user_patterns, default_weights, complex_indicators, usage_stats,
                   env_openai_key, dispatched>>

\* round(n / d): to the nearest integer, a tie to the even one
RoundHalfEven(n, d) ==
    LET q == n \div d
        r == n % d
    IN  IF 2 * r < d THEN q
        ELSE IF 2 * r > d THEN q + 1
        ELSE IF q % 2 = 0 THEN q ELSE q + 1

\* AIEngine.get_usage_stats: estimated_cost_usd is a count of 1/1000 dollar, a
\* percentage is a count of 1/10 percent
get_usage_stats(self_usage_stats) ==
    LET total_calls == self_usage_stats.openai_calls + self_usage_stats.claude_calls
    IN  [raised |-> "no",
         openai_calls |-> self_usage_stats.openai_calls,
         claude_calls |-> self_usage_stats.claude_calls,
         total_tokens |-> self_usage_stats.total_tokens,
         total_calls |-> total_calls,
         estimated_cost_usd |->
             self_usage_stats.openai_calls + 10 * self_usage_stats.claude_calls,
         openai_percentage |->
             RoundHalfEven(1000 * self_usage_stats.openai_calls, Max(total_calls, 1)),
         claude_percentage |->
             RoundHalfEven(1000 * self_usage_stats.claude_calls, Max(total_calls, 1))]

\* a call of get_usage_stats, at any time
GetUsageStats ==
    /\ last = NoCall
    /\ last' = [op |-> "get_usage_stats", result |-> get_usage_stats(usage_stats)]
    /\ UNCHANGED <<user_patterns, default_weights, complex_indicators, usage_stats,
                   env_openai_key, batch, tasks, semaphore, dispatched>>

-----------------------------------------------------------------------------
(* morgan.py: TodoGenerator *)

ReviewWords == << <<"r","e","v","i","e","w">>, <<"U+AC80","U+D1A0">> >>

MeetingWords == << <<"m","e","e","t","i","n","g">>, <<"U+D68C","U+C758">> >>

ApproveWords == << <<"a","p","p","r","o","v","e">>, <<"U+C2B9","U+C778">> >>

\* the title is a fixed phrase for its kind around the sender's name
_generate_title(message, analysis) ==
    LET sender == message.username
        text == message.text
        kind ==
            IF Contains(<<"?">>, text) THEN "answer"
            ELSE IF ContainsAny(ReviewWords, Lower(text)) THEN "review"
            ELSE IF ContainsAny(MeetingWords, Lower(text)) THEN "meeting"
            ELSE IF ContainsAny(ApproveWords, Lower(text)) THEN "approve"
            ELSE IF analysis.work_type = "decision" THEN "decision"
            ELSE IF analysis.work_type = "support" THEN "support"
            ELSE "handle"
    IN  [kind |-> kind, sender |-> sender]

\* models.py TodoItem(...); the id is a fresh uuid, the description and the tags
\* are text built from the same three arguments
generate_todo_item(message, analysis, priority_score) ==
    [source_message |-> message,
     ai_analysis |-> analysis,
     priority_score |-> priority_score,
     title |-> _generate_title(message, analysis),
     completed |-> FALSE]

\* the loop of generate_todo_list over analyzed_messages[1..n]
RECURSIVE CollectTodos(_, _)
CollectTodos(analyzed_messages, n) ==
    IF n = 0 THEN <<>>
    ELSE LET entry == analyzed_messages[n]
             before == CollectTodos(analyzed_messages, n - 1)
         IN  IF entry.analysis.action_required
             THEN Append(before, generate_todo_item(entry.message, entry.analysis,
                                                    entry.priority))
             ELSE before

\* list.sort(key=final_score, reverse=True) is stable: a todo goes behind the todos
\* before it in the list whose score is not smaller
RECURSIVE SortTodos(_, _)
SortTodos(todos, n) ==
    IF n = 0 THEN <<>>
    ELSE LET sorted == SortTodos(todos, n - 1)
             todo == todos[n]
             k == Cardinality({i \in 1..Len(sorted) :
                     sorted[i].priority_score.final_score
                         >= todo.priority_score.final_score})
         IN  SubSeq(sorted, 1, k) \o <<todo>> \o SubSeq(sorted, k + 1, Len(sorted))

\* the todos left in the order of the messages
generate_todo_list_unsorted(analyzed_messages) ==
    LET todos == CollectTodos(analyzed_messages, Len(analyzed_messages))
    IN  [items |-> todos,
         total_items |-> Len(todos),
         completed_items |-> 0,
         ai_models_used |-> {todos[i].ai_analysis.model_used : i \in 1..Len(todos)}]

\* models.py TodoList(...); the id is a fresh uuid and the title holds the date
generate_todo_list(analyzed_messages) ==
    LET todos == CollectTodos(analyzed_messages, Len(analyzed_messages))
        sorted == SortTodos(todos, Len(todos))
    IN  [items |-> sorted,
         total_items |-> Len(sorted),
         completed_items |-> 0,
         ai_models_used |-> {todos[i].ai_analysis.model_used : i \in 1..Len(todos)}]

\* analyzed_messages is a list of [message, analysis, priority]
GenerateTodoList(analyzed_messages) ==
    /\ last = NoCall
    /\ last' = [op |-> "generate_todo_list",
                analyzed_messages |-> analyzed_messages,
                result |-> generate_todo_list(analyzed_messages)]
    /\ UNCHANGED <<user_patterns, default_weights, complex_indicators, usage_stats,
                   env_openai_key, batch, tasks, semaphore, dispatched>>

-----------------------------------------------------------------------------
(* Inputs *)

TextGotIt == <<"g","o","t"," ","i","t",","," ","t","h","a","n","k","s">>

TextReview == <<"P","l","e","a","s","e"," ","R","E","V","I","E","W"," ","t","h","e"," ","b","u","d","g","e","t"," ","A","S","A","P","?">>

TextUrgent == <<"U","R","G","E","N","T",":"," ","s","e","r","v","e","r"," ","d","o","w","n">>

TextHello == <<"h","e","l","l","o"," ","t","e","a","m">>

NameAlice == <<"a","l","i","c","e">>

NameBob == <<"b","o","b">>

ChanRandom == <<"r","a","n","d","o","m">>

ChanGeneral == <<"g","e","n","e","r","a","l">>

ChanExec == <<"E","x","e","c","-","B","o","a","r","d">>

ChanDev == <<"d","e","v">>

StrExec == <<"e","x","e","c">>

StrReviewCaps == <<"R","e","v","i","e","w">>

StrOtherCaps == <<"O","T","H","E","R">>

Message(text, username, channel_name, activity_type, mentions_me, timestamp) ==
    [text |-> text, username |-> username, channel_name |-> channel_name,
     activity_type |-> activity_type, mentions_me |-> mentions_me,
     timestamp |-> timestamp]

UserPattern(pattern_type, pattern_value, weight_adjustment, confidence) ==
    [pattern_type |-> pattern_type, pattern_value |-> pattern_value,
     weight_adjustment |-> weight_adjustment, confidence |-> confidence,
     usage_count |-> 0]

\* texts for the router and the adapters: 200 and 201 characters around the
\* router's length rule
RouterTexts == {TextGotIt, TextReview, TextUrgent, TextHello, Pad(200), Pad(201), Pad(250)}

RouterMessages ==
    {Message(t, NameBob, ChanDev, a, mm, At(2, 12, 0)) :
        t \in RouterTexts, a \in ActivityType, mm \in BOOLEAN}

Responses ==
    { [kind |-> "error"],
      [kind |-> "text"],
      [kind |-> "json", data |-> <<>>],
      [kind |-> "json",
       data |-> [action_required |-> TRUE, urgency_score |-> 8500,
                 complexity |-> "complex", work_type |-> "decision",
                 emotional_tone |-> "urgent", estimated_time_minutes |-> 45,
                 confidence |-> 9000]],
      [kind |-> "json", data |-> [action_required |-> TRUE, work_type |-> "review"]],
      [kind |-> "json", data |-> [work_type |-> "bogus", urgency_score |-> 4000]],
      [kind |-> "json", data |-> [urgency_score |-> 15000, action_required |-> TRUE]],
      [kind |-> "json", data |-> [confidence |-> -1000]],
      [kind |-> "json", data |-> [estimated_time_minutes |-> -5]] }

\* what the cheap provider answers on the downgrade path
DowngradeResponses ==
    {r \in Responses : r.kind # "json" \/ DOMAIN r.data \in {{}, {"action_required", "work_type"}}}

Analysis(action_required, urgency_score, complexity, work_type, emotional_tone, minutes) ==
    [raised |-> "no", action_required |-> action_required,
     urgency_score |-> urgency_score, complexity |-> complexity,
     work_type |-> work_type, emotional_tone |-> emotional_tone,
     estimated_time_minutes |-> minutes, confidence |-> 8000,
     reasoning |-> <<>>, detected_keywords |-> <<>>, model_used |-> "test"]

Analyses ==
    { Analysis(FALSE, 1000, "simple", "other", "neutral", 5),
      Analysis(TRUE, 9000, "complex", "decision", "urgent", 45),
      Analysis(TRUE, 5000, "medium", "review", "frustrated", 20),
      Analysis(FALSE, 0, "simple", "info", "encouraging", 31) }

PatternsAlice == << UserPattern("sender", NameAlice, 30, 100) >>

PatternsMany ==
    << UserPattern("sender", NameAlice, 30, 100),
       UserPattern("keyword", StrReviewCaps, 40, 50),
       UserPattern("channel", StrExec, 500, 100) >>

PatternsNegative ==
    << UserPattern("work_type", StrOtherCaps, -900, 100),
       UserPattern("time", StrMorning, 20, 80) >>

PatternLists == {PatternsAlice, PatternsMany, PatternsNegative}

Supplied == {NoneArg, Some(<<>>)} \cup {Some(p) : p \in PatternLists}

Timestamps == {At(0, 8, 0), At(2, 12, 0), At(5, 23, 0)}

Ages == {30, 1500}

CalcMessages ==
    {Message(t, u, c, a, FALSE, ts) :
        t \in {TextGotIt, TextReview}, u \in {NameAlice, NameBob},
        c \in {ChanRandom, ChanExec}, a \in ActivityType, ts \in Timestamps}

BatchItems ==
    { [message |-> Message(TextReview, NameAlice, ChanExec, "mention", TRUE, At(0, 8, 0)),
       ai_analysis |-> Analysis(TRUE, 9000, "complex", "decision", "urgent", 45)],
      [message |-> Message(TextGotIt, NameBob, ChanRandom, "channel", FALSE, At(2, 12, 0)),
       ai_analysis |-> Analysis(FALSE, 1000, "simple", "other", "neutral", 5)] }

\* the lists of at most MaxBatch items
BatchLists == UNION {[1..n -> BatchItems] : n \in 0..MaxBatch}

\* messages for the adapters
AdapterMessages ==
    {Message(t, NameBob, ChanDev, a, mm, At(2, 12, 0)) :
        t \in {TextGotIt, TextReview, TextUrgent, Pad(201)},
        a \in {"channel", "dm"}, mm \in BOOLEAN}

\* the scenarios of the test plan, at every hour of every day of the week
WeekHours == {At(d, h, 0) : d \in 0..6, h \in 0..23}

ScenarioLowMessage(ts) == Message(TextGotIt, NameBob, ChanRandom, "channel", FALSE, ts)

ScenarioLowAnalysis == Analysis(FALSE, 1000, "simple", "other", "neutral", 5)

ScenarioUrgentMessage(text, ts) == Message(text, NameBob, ChanGeneral, "dm", TRUE, ts)

ScenarioUrgentAnalysis == Analysis(TRUE, 9000, "complex", "decision", "urgent", 45)

ScenarioAges == {0, 30, 300, 1500}

\* messages for the engine: the first is routed to the cheap tier, the second to
\* the expensive one
EngineMessages ==
    { Message(TextGotIt, NameBob, ChanDev, "channel", FALSE, At(2, 12, 0)),
      Message(TextReview, NameAlice, ChanDev, "mention", TRUE, At(2, 12, 0)) }

\* the lists of at most MaxMessages messages
MessageLists == UNION {[1..n -> EngineMessages] : n \in 0..MaxMessages}

\* what a provider answers a task of a batch
EngineResponses ==
    { [kind |-> "error"],
      [kind |-> "json", data |-> [action_required |-> TRUE, work_type |-> "review"]] }

\* inputs for the factor methods of the calculator
TextThreeKeywords == <<"U","R","G","E","N","T",":"," ","c","l","i","e","n","t"," ","d","e","a","d","l","i","n","e"," ","m","o","v","e","d">>

TextFourKeywords == <<"u","r","g","e","n","t"," ","c","l","i","e","n","t"," ","b","u","d","g","e","t"," ","d","e","a","d","l","i","n","e">>

TextFiveKeywords == <<"U","r","g","e","n","t"," ","c","l","i","e","n","t"," ","b","u","d","g","e","t"," ","d","e","a","d","l","i","n","e"," ","f","o","r"," ","t","h","e"," ","B","o","a","r","d">>

TextRepeatedKeyword == <<"u","r","g","e","n","t"," ","u","r","g","e","n","t"," ","u","r","g","e","n","t"," ","u","r","g","e","n","t"," ","u","r","g","e","n","t">>

\* 19, 20, 500 and 501 characters around the length rules; three, four and five
\* distinct keywords around the cap of the keyword boost
FactorTexts ==
    {Pad(19), Pad(20), Pad(500), Pad(501), TextThreeKeywords, TextFourKeywords,
     TextFiveKeywords, TextRepeatedKeyword}

NameAliceCaps == <<"A","l","i","c","e">>

ChanAlerts == <<"P","r","o","d","-","A","l","e","r","t","s">>

ChanExecAlerts == <<"e","x","e","c","-","a","l","e","r","t","s">>

ChanUrgentGeneral == <<"U","r","g","e","n","t","-","G","e","n","e","r","a","l">>

ChanOffTopic == <<"O","f","f","-","T","o","p","i","c">>

FactorChannels ==
    {ChanExec, ChanAlerts, ChanExecAlerts, ChanUrgentGeneral, ChanGeneral, ChanOffTopic,
     ChanDev}

\* on the hour and half past, every hour of a Monday, a Wednesday and a Saturday
FactorTimestamps == {At(d, h, mi) : d \in {0, 2, 5}, h \in 0..23, mi \in {0, 30}}

\* ages in minutes around one hour and 24 hours
FactorAges == {0, 59, 60, 24 * 60, 24 * 60 + 1}

FactorAnalyses ==
    {Analysis(ar, 5000, c, w, t, 20) :
        ar \in BOOLEAN, c \in {"simple", "medium", "complex"}, w \in WorkType,
        t \in {"neutral", "urgent", "frustrated", "encouraging", "casual"}}

StrAli == <<"A","L","I">>

StrCarol == <<"c","a","r","o","l">>

StrExecCaps == <<"E","X","E","C">>

StrReviewUpper == <<"R","E","V","I","E","W">>

StrOther == <<"o","t","h","e","r">>

StrMorningCaps == <<"M","o","r","n","i","n","g">>

StrEveningCaps == <<"E","V","E","N","I","N","G">>

StrNight == <<"n","i","g","h","t">>

\* every kind of pattern, an unknown kind and an unknown time of day
FactorPatterns ==
    { UserPattern("sender", StrAli, 30, 100),
      UserPattern("sender", StrCarol, 30, 100),
      UserPattern("sender", <<>>, 30, 100),
      UserPattern("channel", StrExecCaps, 30, 100),
      UserPattern("keyword", StrReviewCaps, 30, 100),
      UserPattern("work_type", StrReviewUpper, 30, 100),
      UserPattern("work_type", StrOther, 30, 100),
      UserPattern("time", StrMorningCaps, 30, 100),
      UserPattern("time", StrAfternoon, 30, 100),
      UserPattern("time", StrEveningCaps, 30, 100),
      UserPattern("time", StrNight, 30, 100),
      UserPattern("priority", NameAlice, 30, 100) }

\* estimated minutes 30 and 31 around the focus-block rule, at every urgency
ActionTimeAnalyses ==
    {Analysis(ar, u * 2000, "medium", w, "neutral", mi) :
        ar \in BOOLEAN, u \in 0..5, w \in {"review", "other"}, mi \in {30, 31}}

\* analyzed messages as process_recent_activities hands them over: the priority
\* is the calculator's for the message and its analysis
AnalyzedMessages ==
    {[message |-> message, analysis |-> analysis,
      priority |-> CalculatePriorityScore(<<>>, DefaultWeights, message, analysis,
                                          At(2, 13, 0))] :
        message \in {Message(TextReview, NameAlice, ChanExec, "mention", TRUE, At(2, 12, 0)),
                     Message(TextGotIt, NameBob, ChanRandom, "channel", FALSE, At(2, 12, 0))},
        analysis \in Analyses}

\* the lists of at most MaxTodos analyzed messages
AnalyzedLists == UNION {[1..n -> AnalyzedMessages] : n \in 0..MaxTodos}

-----------------------------------------------------------------------------
(* Specifications *)

\* the calculator, the router, both adapters and the engine have been constructed,
\* which needs both keys in the environment
Init ==
    /\ user_patterns = <<>>
    /\ default_weights = DefaultWeights
    /\ complex_indicators = ComplexIndicators
    /\ usage_stats = [openai_calls |-> 0, claude_calls |-> 0, total_tokens |-> 0]
    /\ env_openai_key = TRUE
    /\ batch = NoBatch
    /\ tasks = <<>>
    /\ semaphore = 0
    /\ dispatched = 0
    /\ last = NoCall

\* a process that holds both credentials
InitWithKeys == Init /\ env_openai_key

\* the calculator alone
CallCalculatePriority ==
    \E message \in CalcMessages, ai_analysis \in Analyses, supplied \in Supplied,
       age \in Ages :
        calculate_priority(message, ai_analysis, supplied, message.timestamp + age)

CallBatchCalculatePriorities ==
    \E items \in BatchLists, supplied \in Supplied :
        batch_calculate_priorities(items, supplied, At(2, 13, 0))

NextCalc == CallCalculatePriority \/ CallBatchCalculatePriorities \/ Return

SpecCalc == InitWithKeys /\ [][NextCalc]_vars

\* the two scenarios on a calculator that was given no patterns
CallScenarioLow ==
    \E ts \in WeekHours, age \in ScenarioAges, supplied \in {NoneArg, Some(<<>>)} :
        calculate_priority(ScenarioLowMessage(ts), ScenarioLowAnalysis, supplied, ts + age)

CallScenarioUrgent ==
    \E ts \in WeekHours, text \in {TextHello, TextReview},
       supplied \in {NoneArg, Some(<<>>)} :
        calculate_priority(ScenarioUrgentMessage(text, ts), ScenarioUrgentAnalysis,
                           supplied, ts)

NextScenario == CallScenarioLow \/ CallScenarioUrgent \/ Return

SpecScenario == InitWithKeys /\ [][NextScenario]_vars

\* the factor methods of the calculator, one at a time
CallSenderAuthority ==
    \E c \in FactorChannels, a \in ActivityType, h \in 0..23, mi \in {0, 30} :
        SenderAuthority(Message(TextHello, NameBob, c, a, FALSE, At(2, h, mi)))

CallTimeUrgency ==
    \E ts \in FactorTimestamps, u \in {0, 5000, 9000}, age \in FactorAges :
        TimeUrgency(Message(TextHello, NameBob, ChanDev, "channel", FALSE, ts),
                    Analysis(FALSE, u, "simple", "other", "neutral", 5), ts + age)

CallContentImportance ==
    \E t \in FactorTexts, ai_analysis \in FactorAnalyses :
        ContentImportance(Message(t, NameBob, ChanDev, "channel", FALSE, At(2, 12, 0)),
                          ai_analysis)

CallPatternMatches ==
    \E pattern \in FactorPatterns, h \in 0..23, w \in {"review", "other"},
       message \in {Message(TextReview, NameAliceCaps, ChanExec, "channel", FALSE, 0),
                    Message(TextGotIt, NameBob, ChanDev, "channel", FALSE, 0)} :
        PatternMatches(pattern, [message EXCEPT !.timestamp = At(2, h, 30)],
                       Analysis(TRUE, 5000, "medium", w, "neutral", 20))

CallCalculatePriorityLevels ==
    \E c \in {ChanRandom, ChanExec}, a \in ActivityType,
       ai_analysis \in ActionTimeAnalyses, now \in {At(2, 12, 30), At(4, 12, 0)} :
        calculate_priority(Message(TextHello, NameBob, c, a, FALSE, At(2, 12, 0)),
                           ai_analysis, NoneArg, now)

NextFactors ==
    \/ CallSenderAuthority
    \/ CallTimeUrgency
    \/ CallContentImportance
    \/ CallPatternMatches
    \/ CallCalculatePriorityLevels
    \/ Return

SpecFactors == InitWithKeys /\ [][NextFactors]_vars

\* the todo generator
CallGenerateTodoList ==
    \E analyzed_messages \in AnalyzedLists : GenerateTodoList(analyzed_messages)

NextTodo == CallGenerateTodoList \/ Return

SpecTodo == InitWithKeys /\ [][NextTodo]_vars

\* the router, the adapters, the engine and the calculator together
CallSelectTier == \E message \in RouterMessages : SelectTier(message)

CallQuickClassify ==
    \E message \in AdapterMessages, response \in Responses :
        QuickClassify(message, response)

CallDeepAnalyze ==
    \E message \in AdapterMessages, response \in Responses,
       openai_response \in DowngradeResponses :
        DeepAnalyze(message, response, openai_response)

CallAnalyzeMessage ==
    \E message \in AdapterMessages, response \in Responses,
       openai_response \in DowngradeResponses :
        analyze_message(message, response, openai_response)

CallCalculatePrioritySmall ==
    \E message \in {bi.message : bi \in BatchItems},
       supplied \in {NoneArg, Some(PatternsAlice)} :
        calculate_priority(message, ScenarioUrgentAnalysis, supplied,
                           message.timestamp + 30)

\* the environment changes between calls
CallSetEnv == \E present \in BOOLEAN : SetEnv(present)

Next ==
    \/ CallSelectTier
    \/ CallQuickClassify
    \/ CallDeepAnalyze
    \/ CallAnalyzeMessage
    \/ CallCalculatePrioritySmall
    \/ CallSetEnv
    \/ Return

Spec == Init /\ [][Next]_vars

\* the engine: single analyses, batches, the usage statistics
CallAnalyzeMessageEngine ==
    \E message \in EngineMessages, response \in EngineResponses,
       openai_response \in EngineResponses :
        analyze_message(message, response, openai_response)

CallStartBatch ==
    \E messages \in MessageLists, max_concurrent \in 0..MaxConcurrent :
        StartBatch(messages, max_concurrent)

CallAdmit == \E i \in 1..MaxMessages : Admit(i)

CallFinish ==
    \E i \in 1..MaxMessages, response \in EngineResponses,
       openai_response \in EngineResponses :
        Finish(i, response, openai_response)

NextEngine ==
    \/ CallSetEnv
    \/ CallAnalyzeMessageEngine
    \/ CallStartBatch
    \/ CallAdmit
    \/ CallFinish
    \/ ReturnBatch
    \/ GetUsageStats
    \/ Return

SpecEngine == Init /\ [][NextEngine]_vars

\* one batch on an engine that has made no call yet
CallStartFirstBatch ==
    /\ usage_stats.openai_calls + usage_stats.claude_calls = 0
    /\ CallStartBatch

\* the provider of the routed tier answers or fails; the cheap provider fails
CallFinishCheapFails ==
    \E i \in 1..MaxMessages, response \in EngineResponses :
        Finish(i, response, [kind |-> "error"])

\* the batches alone.  The event loop runs a task that can run, the provider
\* answers a call that is in flight, and gather returns once every task is done.
NextBatch ==
    \/ CallSetEnv
    \/ CallStartFirstBatch
    \/ CallAdmit
    \/ CallFinishCheapFails
    \/ ReturnBatch
    \/ Return

SpecBatchFair ==
    /\ Init
    /\ [][NextBatch]_vars
    /\ WF_vars(CallAdmit)
    /\ WF_vars(CallFinishCheapFails)
    /\ WF_vars(ReturnBatch)

-----------------------------------------------------------------------------
(* Claims *)

\* the routing rule as a disjunction over the message alone
ExpensiveTrigger(message) ==
    \/ Len(message.text) > 200
    \/ ContainsAny(ComplexIndicators, Lower(message.text))
    \/ message.mentions_me
    \/ message.activity_type = "dm"

\* C1: should_use_complex_model returns the expensive tier exactly when the text
\* is longer than 200 characters, or its lower-cased text holds an indicator
\* keyword, or mentions-me is set, or the activity is a direct message; the
\* result depends on the message alone, whatever was called before, and the call
\* changes neither the router's configuration nor the usage counters nor any
\* other state.
C1_RoutingRule ==
    /\ [](last.op = "should_use_complex_model"
            => last.result = ExpensiveTrigger(last.message))
    /\ [][last'.op = "should_use_complex_model"
            => UNCHANGED <<complex_indicators, usage_stats, user_patterns,
                           default_weights, env_openai_key, batch, tasks,
                           semaphore, dispatched>>]_vars

\* a 250-character text with no other trigger is routed to the expensive tier
\* after the engine has already analysed messages
C1_Witness ==
    /\ last.op = "should_use_complex_model"
    /\ Len(last.message.text) = 250
    /\ ~last.message.mentions_me
    /\ last.message.activity_type = "channel"
    /\ last.result
    /\ usage_stats.openai_calls + usage_stats.claude_calls > 0

\* the scores calculate_priority or batch_calculate_priorities has just returned
ReturnedScores ==
    IF last.op = "calculate_priority" THEN {last.result}
    ELSE IF last.op = "batch_calculate_priorities"
        THEN {last.result[i] : i \in DOMAIN last.result}
    ELSE {}

\* C2: in every PriorityScore returned, priority_level is the bucket of
\* final_score with inclusive lower bounds: >= 0.8 urgent, >= 0.6 high,
\* >= 0.4 medium, below 0.4 low.
C2_LevelIsBucketOfScore ==
    \A ps \in ReturnedScores :
        /\ ps.raised = "no"
        /\ (ps.priority_level = "urgent") <=> (ps.final_score >= 8 * (FinalOne \div 10))
        /\ (ps.priority_level = "high")
                <=> (/\ ps.final_score >= 6 * (FinalOne \div 10)
                     /\ ps.final_score < 8 * (FinalOne \div 10))
        /\ (ps.priority_level = "medium")
                <=> (/\ ps.final_score >= 4 * (FinalOne \div 10)
                     /\ ps.final_score < 6 * (FinalOne \div 10))
        /\ (ps.priority_level = "low") <=> (ps.final_score < 4 * (FinalOne \div 10))

\* a score exactly on a bucket's lower bound is returned
C2_Witness ==
    \E ps \in ReturnedScores :
        /\ ps.raised = "no"
        /\ ps.final_score \in {8 * (FinalOne \div 10), 6 * (FinalOne \div 10),
                               4 * (FinalOne \div 10)}

\* C3: calculate_priority does not raise, and the four sub-scores and the final
\* score lie in [0,1], also with patterns whose adjustments are far outside it.
C3_ScoresInUnitInterval ==
    \A ps \in ReturnedScores :
        /\ ps.raised = "no"
        /\ 0 <= ps.sender_authority_score /\ ps.sender_authority_score <= One
        /\ 0 <= ps.time_urgency_score /\ ps.time_urgency_score <= One
        /\ 0 <= ps.content_importance_score /\ ps.content_importance_score <= One
        /\ 0 <= ps.personal_weight_score /\ ps.personal_weight_score <= One
        /\ 0 <= ps.final_score /\ ps.final_score <= FinalOne

\* a matching pattern of adjustment +5.0 has been clamped to 1.0
C3_Witness ==
    /\ last.op = "calculate_priority"
    /\ last.result.raised = "no"
    /\ 5000 + PatternSum(user_patterns, Len(user_patterns), last.message,
                         last.ai_analysis) > One
    /\ last.result.personal_weight_score = One

\* a matching pattern of adjustment -9.0 has been clamped to 0.0
C3_WitnessNegative ==
    /\ last.op = "calculate_priority"
    /\ last.result.raised = "no"
    /\ 5000 + PatternSum(user_patterns, Len(user_patterns), last.message,
                         last.ai_analysis) < 0
    /\ last.result.personal_weight_score = 0

\* C4: calculate_priority is deterministic in its arguments, whatever was called
\* on the calculator before: the score returned for (message, analysis,
\* patterns, now) is the score the same call returns on a calculator on which
\* nothing has been called yet.
C4_DeterministicInArguments ==
    last.op = "calculate_priority" =>
        last.result = CalculatePriorityScore(PatternsAfter(<<>>, last.supplied),
                                             DefaultWeights, last.message,
                                             last.ai_analysis, last.now)

\* C5: the calculator never retains the patterns it is given: the patterns it
\* holds after a call are the patterns it held before the call.
C5_PatternsNotRetained == [][user_patterns' = user_patterns]_vars

\* the context-adjusted weights of an activity kind, in 1/100, with their total
ExpectedWeights(activity_type) ==
    IF activity_type = "dm"
    THEN [sender_authority |-> 40, time_urgency |-> 25, content_importance |-> 30,
          personal_patterns |-> 20, total |-> 115]
    ELSE IF activity_type = "mention"
    THEN [sender_authority |-> 30, time_urgency |-> 20, content_importance |-> 40,
          personal_patterns |-> 20, total |-> 110]
    ELSE IF activity_type = "channel"
    THEN [sender_authority |-> 30, time_urgency |-> 20, content_importance |-> 30,
          personal_patterns |-> 30, total |-> 110]
    ELSE [sender_authority |-> 30, time_urgency |-> 20, content_importance |-> 30,
          personal_patterns |-> 20, total |-> 100]

\* C6: for every activity kind the four normalized weights sum to 1 and are the
\* base weights plus the context adjustment, divided by the adjusted total; the
\* final score is the sum of sub-score times normalized weight.
C6_WeightsRenormalized ==
    last.op = "calculate_priority" =>
        LET w == last.weights
            ps == last.result
            e == ExpectedWeights(last.message.activity_type)
        IN  /\ w["sender_authority"] + w["time_urgency"] + w["content_importance"]
               + w["personal_patterns"] = WeightOne
            /\ \A key \in WeightKeys : w[key] * e.total = e[key] * WeightOne
            /\ ps.final_score =
                   ps.sender_authority_score * w["sender_authority"]
                   + ps.time_urgency_score * w["time_urgency"]
                   + ps.content_importance_score * w["content_importance"]
                   + ps.personal_weight_score * w["personal_patterns"]

\* a direct message has been scored with the weights (0.40, 0.25, 0.30, 0.20)/1.15
C6_Witness ==
    /\ last.op = "calculate_priority"
    /\ last.message.activity_type = "dm"
    /\ last.weights["sender_authority"] * 115 = 40 * WeightOne
    /\ last.weights["time_urgency"] * 115 = 25 * WeightOne

\* the sum of weight_adjustment * confidence over the patterns numbered in idx
RECURSIVE Contributions(_, _)
Contributions(patterns, idx) ==
    IF idx = {} THEN 0
    ELSE LET i == CHOOSE i \in idx : TRUE
         IN  patterns[i].weight_adjustment * patterns[i].confidence
             + Contributions(patterns, idx \ {i})

C7_WitnessAlice ==
    /\ last.op = "calculate_priority"
    /\ last.supplied = Some(PatternsAlice)
    /\ last.message.username = NameAlice
    /\ last.result.personal_weight_score = 8000

\* the call is the "got it, thanks" scenario
IsScenarioLow ==
    /\ last.op = "calculate_priority"
    /\ last.message = ScenarioLowMessage(last.message.timestamp)
    /\ last.ai_analysis = ScenarioLowAnalysis
    /\ user_patterns = <<>>

\* C8 as stated: the "got it, thanks" scenario gives final_score < 0.4 and the
\* level low at every message timestamp and current time.
C8_ScenarioAlwaysLow ==
    IsScenarioLow =>
        /\ last.result.final_score < 4 * (FinalOne \div 10)
        /\ last.result.priority_level = "low"

\* C8 amended: the scenario gives final_score < 0.6 and the level low or medium;
\* it is low (final_score < 0.4) exactly when the timestamp's hour is within the
\* working hours 9..18 and the time-urgency sub-score is 0, and medium otherwise.
C8_ScenarioLowOrMedium ==
    IsScenarioLow =>
        LET ps == last.result
            hour == Hour(last.message.timestamp)
        IN  /\ ps.final_score < 6 * (FinalOne \div 10)
            /\ ps.priority_level \in {"low", "medium"}
            /\ (ps.priority_level = "low")
                   <=> (9 <= hour /\ hour <= 18 /\ ps.time_urgency_score = 0)
            /\ (ps.priority_level = "low") <=> (ps.final_score < 4 * (FinalOne \div 10))

\* the scenario on a fresh message on a Tuesday morning is medium
C8_Witness ==
    /\ IsScenarioLow
    /\ last.message.timestamp = At(1, 10, 0)
    /\ last.now = At(1, 10, 30)
    /\ last.result.priority_level = "medium"

\* the scenario on a day-old message of Saturday 18:00 is low
C8_WitnessLow ==
    /\ IsScenarioLow
    /\ last.message.timestamp = At(5, 18, 0)
    /\ last.result.priority_level = "low"

\* the call is the urgent direct-message scenario, timestamp = now
IsScenarioUrgent ==
    /\ last.op = "calculate_priority"
    /\ last.message = ScenarioUrgentMessage(last.message.text, last.message.timestamp)
    /\ last.ai_analysis = ScenarioUrgentAnalysis
    /\ last.now = last.message.timestamp
    /\ user_patterns = <<>>

\* C9 as stated: the urgent direct-message scenario gives final_score >= 0.8 and
\* the level urgent at every hour of every day.
C9_ScenarioAlwaysUrgent ==
    IsScenarioUrgent =>
        /\ last.result.final_score >= 8 * (FinalOne \div 10)
        /\ last.result.priority_level = "urgent"

\* C9 amended: the scenario gives the level urgent exactly when the hour of now
\* is outside the working hours 9..18, with final_score 0.93/1.15; within 9..18 it
\* gives final_score 0.89/1.15, below 0.8, and the level high.
C9_ScenarioUrgentOutsideWorkingHours ==
    IsScenarioUrgent =>
        LET ps == last.result
            hour == Hour(last.now)
        IN  IF 9 <= hour /\ hour <= 18
            THEN /\ ps.final_score = 89 * (FinalOne \div 115)
                 /\ ps.final_score < 8 * (FinalOne \div 10)
                 /\ ps.priority_level = "high"
            ELSE /\ ps.final_score = 93 * (FinalOne \div 115)
                 /\ ps.final_score >= 8 * (FinalOne \div 10)
                 /\ ps.priority_level = "urgent"

\* the scenario at Wednesday noon is high
C9_Witness ==
    /\ IsScenarioUrgent
    /\ last.now = At(2, 12, 0)
    /\ last.result.priority_level = "high"

\* the scenario at Wednesday 20:00 is urgent
C9_WitnessUrgent ==
    /\ IsScenarioUrgent
    /\ last.now = At(2, 20, 0)
    /\ last.result.priority_level = "urgent"

\* C10: when the cheap provider call fails or its response does not parse,
\* quick_classify makes no further external call and returns the heuristic
\* result, a function of the text and of mentions-me alone: action_required iff
\* the lower-cased text holds one of the action words; urgency 0.9 with an
\* urgency word, else 0.7 with mentions-me, else 0.3; simple, other, confidence
\* 0.3, 15 minutes, marked fallback-heuristic.
C10_CheapFallbackHeuristic ==
    last.op = "quick_classify" /\ last.response.kind \in {"error", "text"} =>
        LET r == last.result
            text_lower == Lower(last.message.text)
        IN  /\ last.external_calls = <<"openai">>
            /\ r.raised = "no"
            /\ r.action_required = ContainsAny(FallbackActionWords, text_lower)
            /\ r.urgency_score =
                   IF ContainsAny(FallbackUrgentWords, text_lower) THEN 9000
                   ELSE IF last.message.mentions_me THEN 7000
                   ELSE 3000
            /\ r.complexity = "simple"
            /\ r.work_type = "other"
            /\ r.confidence = 3000
            /\ r.estimated_time_minutes = 15
            /\ r.model_used = "fallback-heuristic"

\* the provider failed on an upper-case URGENT message that mentions the user:
\* the urgency word wins over mentions-me
C10_Witness ==
    /\ last.op = "quick_classify"
    /\ last.response.kind = "error"
    /\ last.message.text = TextUrgent
    /\ last.message.mentions_me
    /\ last.result.urgency_score = 9000
    /\ ~last.result.action_required
    /\ last.result.model_used = "fallback-heuristic"

\* C11: when the expensive provider call fails or its response does not parse,
\* deep_analyze makes a live cheap-tier call for the same message: the provider
\* calls are the expensive one and then the cheap one, and the result is what
\* quick_classify returns for that message and that cheap answer, which is the
\* cheap tier's analysis, or the cheap adapter's heuristic fallback when the
\* cheap provider fails too.
C11_DowngradeToCheapTier ==
    last.op = "deep_analyze" /\ last.response.kind \in {"error", "text"} =>
        /\ last.external_calls = <<"claude", "openai">>
        /\ last.result = quick_classify(last.message, last.openai_response)

\* C12: a provider failure inside quick_classify or deep_analyze is never raised
\* to the caller, whatever credentials the environment holds when the call is
\* made: the call returns an analysis.
C12_AnalyzeNeverRaises ==
    last.op \in {"quick_classify", "deep_analyze"} => last.result.raised = "no"

\* a provider answer that is well formed but for its work category
InvalidWorkType(response) ==
    /\ response.kind = "json"
    /\ "work_type" \in DOMAIN response.data
    /\ response.data.work_type \notin WorkType
    /\ "urgency_score" \in DOMAIN response.data
           => response.data.urgency_score \in 0..One
    /\ "confidence" \in DOMAIN response.data => response.data.confidence \in 0..One
    /\ "estimated_time_minutes" \in DOMAIN response.data
           => response.data.estimated_time_minutes >= 0

\* the answer the called adapter received from its own provider
Received ==
    IF last.op = "quick_classify" THEN last.response
    ELSE IF last.op = "deep_analyze" THEN last.response
    ELSE NotAsked

\* C13: an adapter, cheap or expensive, that receives an otherwise well-formed
\* answer with a work category outside the six values returns an analysis whose
\* work category is other, and does not raise.
C13_InvalidWorkTypeGivesOther ==
    last.op \in {"quick_classify", "deep_analyze"} /\ InvalidWorkType(Received) =>
        /\ last.result.raised = "no"
        /\ last.result.work_type = "other"

\* a provider answer whose urgency score or confidence is outside [0,1] and
\* whose other fields are valid
OutOfRange(response) ==
    /\ response.kind = "json"
    /\ \/ /\ "urgency_score" \in DOMAIN response.data
          /\ response.data.urgency_score \notin 0..One
       \/ /\ "confidence" \in DOMAIN response.data
          /\ response.data.confidence \notin 0..One
    /\ "work_type" \in DOMAIN response.data => response.data.work_type \in WorkType
    /\ "estimated_time_minutes" \in DOMAIN response.data
           => response.data.estimated_time_minutes >= 0

\* C14: an out-of-range urgency score or confidence in an otherwise valid answer
\* is clamped into [0,1]: the cheap adapter returns the clamped value together
\* with the provider's other fields and its own tier's identifier.
C14_OutOfRangeIsClamped ==
    last.op = "quick_classify" /\ OutOfRange(last.response) =>
        LET data == last.response.data
            r == last.result
        IN  /\ r.raised = "no"
            /\ r.model_used = OpenAIModel
            /\ r.urgency_score = Clamp01(Get(data, "urgency_score", 5000))
            /\ r.confidence = Clamp01(Get(data, "confidence", 7000))
            /\ "action_required" \in DOMAIN data
                   => r.action_required = data.action_required

\* C15: every analysis that quick_classify, deep_analyze or analyze_message
\* returns, from the provider's answer, from the heuristic fallback or from the
\* downgrade, has urgency score and confidence in [0,1], estimated minutes >= 0
\* and one of the six work categories.
C15_ResultRanges ==
    /\ last.op \in {"quick_classify", "deep_analyze", "analyze_message"}
    /\ last.result.raised = "no"
    => /\ last.result.urgency_score \in 0..One
       /\ last.result.confidence \in 0..One
       /\ last.result.estimated_time_minutes >= 0
       /\ last.result.work_type \in WorkType

\* the expensive provider answered with urgency 1.5, the cheap provider then
\* failed: the analysis returned is within the ranges
C15_Witness ==
    /\ last.op = "deep_analyze"
    /\ last.response.kind = "json"
    /\ "urgency_score" \in DOMAIN last.response.data
    /\ last.response.data.urgency_score > One
    /\ last.openai_response.kind = "error"
    /\ last.result.raised = "no"
    /\ last.result.urgency_score <= One

\* a provider answer that parses and whose present fields are all valid
WellFormed(response) ==
    /\ response.kind = "json"
    /\ "work_type" \in DOMAIN response.data => response.data.work_type \in WorkType
    /\ "urgency_score" \in DOMAIN response.data
           => response.data.urgency_score \in 0..One
    /\ "confidence" \in DOMAIN response.data => response.data.confidence \in 0..One
    /\ "estimated_time_minutes" \in DOMAIN response.data
           => response.data.estimated_time_minutes >= 0

\* the documented defaults of the two tiers
CheapDefaults ==
    [urgency_score |-> 5000, estimated_time_minutes |-> 10, confidence |-> 7000,
     work_type |-> "other"]

ExpensiveDefaults ==
    [urgency_score |-> 5000, estimated_time_minutes |-> 20, confidence |-> 8000,
     work_type |-> "other"]

\* each of the four fields is the provider's when present, the default when not
KeptOrDefault(result, data, defaults) ==
    \A f \in DOMAIN defaults :
        result[f] = IF f \in DOMAIN data THEN data[f] ELSE defaults[f]

\* C16: when the provider's answer parses but lacks fields, each missing field
\* takes its default and the present fields are kept: urgency 0.5 on both tiers,
\* 10 minutes and confidence 0.7 on the cheap tier, 20 minutes and confidence 0.8
\* on the expensive tier, work category other; the result carries the identifier
\* of the tier that made the call, and no further provider is called.
C16_MissingFieldsTakeDefaults ==
    /\ last.op = "quick_classify" /\ WellFormed(last.response) =>
           /\ last.result.raised = "no"
           /\ KeptOrDefault(last.result, last.response.data, CheapDefaults)
           /\ last.result.model_used = OpenAIModel
           /\ last.external_calls = <<"openai">>
    /\ last.op = "deep_analyze" /\ WellFormed(last.response) =>
           /\ last.result.raised = "no"
           /\ KeptOrDefault(last.result, last.response.data, ExpensiveDefaults)
           /\ last.result.model_used = ClaudeModel
           /\ last.external_calls = <<"claude">>

\* the expensive provider answered with action_required and a work category
\* only: 20 minutes, confidence 0.8 and urgency 0.5 are filled in
C16_Witness ==
    /\ last.op = "deep_analyze"
    /\ last.response.kind = "json"
    /\ DOMAIN last.response.data = {"action_required", "work_type"}
    /\ last.result.work_type = "review"
    /\ last.result.action_required
    /\ last.result.estimated_time_minutes = 20
    /\ last.result.confidence = 8000
    /\ last.result.urgency_score = 5000
    /\ last.result.model_used = ClaudeModel

\* the cheap provider answered with an empty object: every field is a default
C16_WitnessEmpty ==
    /\ last.op = "quick_classify"
    /\ last.response.kind = "json"
    /\ DOMAIN last.response.data = {}
    /\ last.result.estimated_time_minutes = 10
    /\ last.result.confidence = 7000
    /\ last.result.work_type = "other"
    /\ last.result.model_used = OpenAIModel

\* how many times x occurs in seq
Count(seq, x) == Cardinality({i \in 1..Len(seq) : seq[i] = x})

\* C17: every invocation of an adapter increments the counter of that adapter's
\* tier by one: a call of analyze_message raises openai_calls by the number of
\* cheap-adapter invocations it made, the one on the expensive adapter's
\* downgrade path included, and claude_calls by the number of expensive-adapter
\* invocations it made.  (Each adapter invocation makes exactly one call of its
\* provider, which external_calls lists.)
C17_CountersCountAdapterInvocations ==
    [][last = NoCall /\ last'.op = "analyze_message"
       => /\ usage_stats'.openai_calls
                 = usage_stats.openai_calls + Count(last'.external_calls, "openai")
          /\ usage_stats'.claude_calls
                 = usage_stats.claude_calls + Count(last'.external_calls, "claude")]_vars

\* what the adapter chosen for a finished task returns for the answers the task
\* consumed
AnalysisOf(t) ==
    IF should_use_complex_model(t.message)
    THEN deep_analyze(t.key, t.message, t.response, t.openai_response)
    ELSE quick_classify(t.message, t.openai_response)

\* C18: analyze_batch returns normally whatever its adapter invocations do: of N
\* messages of which k invocations raised, the output has exactly N - k entries,
\* in the order of the messages; each entry pairs a message of the batch with the
\* analysis its own invocation produced; and the usage counters have grown by N,
\* the k failed calls included.
C18_BatchDropsOnlyFailedMessages ==
    last.op = "analyze_batch" =>
        LET ts == last.tasks
            N == Len(last.messages)
            kept == {i \in 1..N : ts[i].result.raised = "no"}
            k == N - Cardinality(kept)
            Rank(i) == Cardinality({j \in kept : j <= i})
        IN  /\ last.raised = "no"
            /\ Len(ts) = N
            /\ Len(last.result) = N - k
            /\ \A i \in kept :
                   /\ ts[i].message = last.messages[i]
                   /\ last.result[Rank(i)] = <<last.messages[i], AnalysisOf(ts[i])>>
            /\ \A i \in (1..N) \ kept : AnalysisOf(ts[i]).raised # "no"
            /\ usage_stats.openai_calls + usage_stats.claude_calls
                   = last.calls_before + N

\* a batch of two messages whose first invocation raised: the output is the one
\* entry of the second message, and both calls are counted
C18_Witness ==
    /\ last.op = "analyze_batch"
    /\ Len(last.messages) = 2
    /\ last.tasks[1].result.raised = "ValueError"
    /\ last.tasks[2].result.raised = "no"
    /\ Len(last.result) = 1
    /\ last.result[1][1] = last.messages[2]
    /\ last.messages[1] # last.messages[2]
    /\ usage_stats.openai_calls + usage_stats.claude_calls = last.calls_before + 2

\* C19: while analyze_batch runs with max_concurrent >= 1, the calls admitted by
\* the semaphore and not yet finished are at most max_concurrent, in every state
\* of every interleaving of the tasks; the semaphore's value is what is left.
C19_InFlightAtMostMaxConcurrent ==
    batch # NoBatch /\ batch.max_concurrent >= 1 =>
        /\ Cardinality(InFlight(tasks)) <= batch.max_concurrent
        /\ semaphore = batch.max_concurrent - Cardinality(InFlight(tasks))

\* the semaphore is exhausted and holds a task back
C19_Witness ==
    /\ batch # NoBatch
    /\ Cardinality(InFlight(tasks)) = batch.max_concurrent
    /\ semaphore = 0
    /\ \E i \in 1..Len(tasks) : tasks[i].pc = "created"

\* C20: on one engine, after any number of single analyses and batches and under
\* every interleaving of a batch's tasks, openai_calls + claude_calls is the
\* number of messages handed to analyze_message so far, dropped ones included,
\* and is what get_usage_stats reports as total_calls; the counters never
\* decrease; get_usage_stats answers at any time, before any call with every
\* count and both percentages 0; estimated_cost_usd is 0.001 per cheap call plus
\* 0.01 per expensive call.
C20_UsageStatistics ==
    /\ [](usage_stats.openai_calls + usage_stats.claude_calls = dispatched)
    /\ [][/\ usage_stats'.openai_calls >= usage_stats.openai_calls
          /\ usage_stats'.claude_calls >= usage_stats.claude_calls
          /\ last = NoCall /\ last'.op = "get_usage_stats" =>
                 LET r == last'.result
                 IN  /\ r.raised = "no"
                     /\ r.openai_calls = usage_stats.openai_calls
                     /\ r.claude_calls = usage_stats.claude_calls
                     /\ r.total_calls = dispatched
                     /\ r.estimated_cost_usd = r.openai_calls + 10 * r.claude_calls
                     /\ dispatched = 0 =>
                            /\ r.openai_calls = 0 /\ r.claude_calls = 0
                            /\ r.openai_percentage = 0 /\ r.claude_percentage = 0]_vars

\* the statistics are read while a batch runs, after one of its invocations was
\* dropped and while another is in flight
C20_Witness ==
    /\ last.op = "get_usage_stats"
    /\ batch # NoBatch
    /\ \E i \in 1..Len(tasks) : tasks[i].pc = "done" /\ tasks[i].result.raised # "no"
    /\ InFlight(tasks) # {}
    /\ last.result.total_calls >= 2
    /\ last.result.total_calls = last.result.openai_calls + last.result.claude_calls

\* the statistics are read before any call
C20_WitnessBeforeAnyCall ==
    /\ last.op = "get_usage_stats"
    /\ last.result.total_calls = 0
    /\ last.result.openai_percentage = 0
    /\ last.result.estimated_cost_usd = 0

-----------------------------------------------------------------------------
(* The factor scores, the pattern matching and the action time *)

\* the label that belongs to a priority level
ActionTimeOf(level, minutes) ==
    IF level = "urgent" THEN "within 30 minutes"
    ELSE IF level = "high"
        THEN IF minutes > 30 THEN "today, focus block" ELSE "today, within 1-2 hours"
    ELSE IF level = "medium" THEN "this week"
    ELSE "whenever convenient"

\* C21: the recommended action time of a returned score is determined by its
\* priority level, and for the level high by the estimated minutes: urgent gives
\* within 30 minutes, high gives the focus block above 30 minutes and within 1-2
\* hours up to 30, medium gives this week, low gives whenever convenient.
C21_ActionTimeAgreesWithLevel ==
    last.op = "calculate_priority" /\ last.result.raised = "no"
    => last.result.recommended_action_time
         = ActionTimeOf(last.result.priority_level,
                        last.ai_analysis.estimated_time_minutes)

\* a high score with 31 estimated minutes is given the focus block
C21_Witness ==
    /\ last.op = "calculate_priority"
    /\ last.result.raised = "no"
    /\ last.result.priority_level = "high"
    /\ last.ai_analysis.estimated_time_minutes = 31
    /\ last.result.recommended_action_time = "today, focus block"

\* a high score with 30 estimated minutes is not
C21_WitnessThirty ==
    /\ last.op = "calculate_priority"
    /\ last.result.raised = "no"
    /\ last.result.priority_level = "high"
    /\ last.ai_analysis.estimated_time_minutes = 30
    /\ last.result.recommended_action_time = "today, within 1-2 hours"

\* the minute of the day of a timestamp
MinuteOfDay(ts) == ts % (24 * 60)

\* sub in s
IsSubstring(sub, s) ==
    \E i \in 0..Len(s) :
        /\ i + Len(sub) <= Len(s)
        /\ \A j \in 1..Len(sub) : s[i + j] = sub[j]

ActivityBonus(activity_type) ==
    IF activity_type = "mention" THEN 3000
    ELSE IF activity_type = "dm" THEN 2000
    ELSE IF activity_type = "thread_reply" THEN 1000
    ELSE 0

\* the first group with a keyword in the lower-cased channel name decides
ChannelBonus(channel_name) ==
    LET name == Lower(channel_name)
        Has(ks) == \E k \in ks : IsSubstring(k, name)
    IN  IF Has({<<"e","x","e","c">>, <<"l","e","a","d","e","r","s","h","i","p">>,
                <<"b","o","a","r","d">>}) THEN 3000
        ELSE IF Has({<<"u","r","g","e","n","t">>, <<"c","r","i","t","i","c","a","l">>,
                     <<"a","l","e","r","t">>}) THEN 2500
        ELSE IF Has({<<"g","e","n","e","r","a","l">>, <<"r","a","n","d","o","m">>,
                     <<"o","f","f","-","t","o","p","i","c">>}) THEN -1000
        ELSE 0

\* before 09:00 or after 18:00
OutsideWorkingHours(ts) == MinuteOfDay(ts) < 9 * 60 \/ MinuteOfDay(ts) > 18 * 60

\* C22: the sender-authority score is 0.5 plus the activity bonus, the channel
\* bonus and 0.1 exactly when the timestamp is before 09:00 or after 18:00,
\* clamped to [0,1].
C22_SenderAuthorityFormula ==
    last.op = "_calculate_sender_authority_score"
    => last.result
         = Clamp01(5000 + ActivityBonus(last.message.activity_type)
                   + ChannelBonus(last.message.channel_name)
                   + (IF OutsideWorkingHours(last.message.timestamp) THEN 1000 ELSE 0))

AgeTerm(age_minutes) ==
    IF age_minutes < 60 THEN 2000
    ELSE IF age_minutes > 24 * 60 THEN -2000
    ELSE 0

WeekdayTerm(ts) ==
    IF Weekday(ts) \in {5, 6} THEN -1000
    ELSE IF Weekday(ts) = 0 THEN 1000
    ELSE 0

\* within 22:00-06:00
Night(ts) == MinuteOfDay(ts) >= 22 * 60 \/ MinuteOfDay(ts) <= 6 * 60

\* C23: the time-urgency score is the analysis urgency plus the age term, the
\* weekday term and the time-of-day term, clamped to [0,1]; the time-of-day term
\* is 0.1 in the hours 9 to 17, 0.2 within 22:00-06:00 and 0 at any other time.
C23_TimeUrgencyFormula ==
    last.op = "_calculate_time_urgency_score"
    => last.result
         = Clamp01(last.ai_analysis.urgency_score
                   + AgeTerm(last.now - last.message.timestamp)
                   + WeekdayTerm(last.message.timestamp)
                   + (IF Hour(last.message.timestamp) \in 9..17 THEN 1000
                      ELSE IF Night(last.message.timestamp) THEN 2000
                      ELSE 0))

\* the number of the keywords that occur in the lower-cased text
KeywordsMatched(text) ==
    Cardinality({k \in {high_priority_keywords[n] : n \in 1..Len(high_priority_keywords)} :
                    IsSubstring(k, Lower(text))})

\* C24: the content-importance score is 0.5 plus 0.3 for a required action, the
\* work category term, the complexity term, the tone term, the length term and
\* 0.05 per matched high-priority keyword up to 0.2, clamped to [0,1].
C24_ContentImportanceFormula ==
    last.op = "_calculate_content_importance_score"
    => LET a == last.ai_analysis
           n == Len(last.message.text)
           boost == KeywordsMatched(last.message.text) * 500
       IN  last.result
             = Clamp01(5000
                       + (IF a.action_required THEN 3000 ELSE 0)
                       + (CASE a.work_type \in {"decision", "meeting", "review"} -> 2000
                            [] a.work_type \in {"info", "support"} -> 1000
                            [] OTHER -> 0)
                       + (CASE a.complexity = "complex" -> 1500
                            [] a.complexity = "simple" -> -500
                            [] OTHER -> 0)
                       + (CASE a.emotional_tone = "urgent" -> 2000
                            [] a.emotional_tone = "frustrated" -> 1500
                            [] a.emotional_tone = "encouraging" -> 500
                            [] OTHER -> 0)
                       + (CASE n > 500 -> 1000 [] n < 20 -> 500 [] OTHER -> 0)
                       + (IF boost > 2000 THEN 2000 ELSE boost))

\* five keywords matched, the boost capped at 0.2 and the score below 1
C24_Witness ==
    /\ last.op = "_calculate_content_importance_score"
    /\ KeywordsMatched(last.message.text) = 5
    /\ last.ai_analysis.complexity = "simple"
    /\ last.result = 5000 - 500 + 2000

\* more than 500 characters
C24_WitnessLong ==
    /\ last.op = "_calculate_content_importance_score"
    /\ Len(last.message.text) = 501
    /\ last.result = 5000 + 1000

\* the hours of the day a time-of-day pattern value stands for
TimeWindow(value) ==
    IF value = <<"m","o","r","n","i","n","g">> THEN 6..11
    ELSE IF value = <<"a","f","t","e","r","n","o","o","n">> THEN 12..17
    ELSE IF value = <<"e","v","e","n","i","n","g">> THEN 18..21
    ELSE {}

\* C25: a pattern matches by its kind, the pattern value taken without regard to
\* case: sender, channel and keyword patterns when the value occurs in the
\* username, the channel name or the text, a work_type pattern when the value is
\* the work category, a time pattern when the hour is in the window of its value
\* (morning 6..11, afternoon 12..17, evening 18..21); any other kind and any
\* other time value never match.
C25_PatternMatching ==
    last.op = "_pattern_matches"
    => LET kind == last.pattern.pattern_type
           value == Lower(last.pattern.pattern_value)
           hour == Hour(last.message.timestamp)
       IN  last.result
             = CASE kind = "sender" -> IsSubstring(value, Lower(last.message.username))
                 [] kind = "channel" -> IsSubstring(value, Lower(last.message.channel_name))
                 [] kind = "keyword" -> IsSubstring(value, Lower(last.message.text))
                 [] kind = "work_type" -> value = WorkTypeValue[last.ai_analysis.work_type]
                 [] kind = "time" -> hour \in TimeWindow(value)
                 [] OTHER -> FALSE

\* an evening pattern written in capitals matches at 21:30
C25_Witness ==
    /\ last.op = "_pattern_matches"
    /\ last.pattern.pattern_type = "time"
    /\ last.pattern.pattern_value = StrEveningCaps
    /\ last.message.timestamp = At(2, 21, 30)
    /\ last.result

\* a pattern of an unknown kind does not match although its value occurs
C25_WitnessUnknownKind ==
    /\ last.op = "_pattern_matches"
    /\ last.pattern.pattern_type = "priority"
    /\ IsSubstring(Lower(last.pattern.pattern_value), Lower(last.message.username))
    /\ ~last.result

-----------------------------------------------------------------------------
(* The todo list *)

\* the positions of the analyzed messages that require an action
ActionPositions(analyzed_messages) ==
    {i \in 1..Len(analyzed_messages) : analyzed_messages[i].analysis.action_required}

\* C26: the generated list has exactly one todo for each analyzed message that
\* requires an action and none for the others, its items are in order of
\* non-increasing final score, total_items is the number of items and
\* completed_items is 0.
C26_TodoListOfActionMessages ==
    last.op = "generate_todo_list"
    => LET input == last.analyzed_messages
           items == last.result.items
           positions == ActionPositions(input)
       IN  /\ Len(items) = Cardinality(positions)
           /\ \E f \in [1..Len(items) -> positions] :
                /\ \A i, j \in 1..Len(items) : i # j => f[i] # f[j]
                /\ \A i \in 1..Len(items) :
                     /\ items[i].source_message = input[f[i]].message
                     /\ items[i].ai_analysis = input[f[i]].analysis
                     /\ items[i].priority_score = input[f[i]].priority
           /\ \A i \in 1..Len(items) - 1 :
                items[i].priority_score.final_score
                    >= items[i + 1].priority_score.final_score
           /\ last.result.total_items = Len(items)
           /\ last.result.completed_items = 0

\* three messages, the one that needs no action left out and the other two
\* swapped by the sort
C26_Witness ==
    /\ last.op = "generate_todo_list"
    /\ Len(last.analyzed_messages) = 3
    /\ Len(last.result.items) = 2
    /\ ActionPositions(last.analyzed_messages) = {1, 3}
    /\ last.result.items[1].source_message = last.analyzed_messages[3].message
    /\ last.result.items[1].priority_score.final_score
         > last.result.items[2].priority_score.final_score

-----------------------------------------------------------------------------
(* The order, the termination and the admission of a batch *)

\* C27: whatever order the tasks of a batch finish in, the output of
\* analyze_batch is a subsequence of the input in input order: the entries are
\* the messages at strictly increasing positions of the input, each position at
\* most once, each with the analysis of the task at that position.
C27_OutputInInputOrder ==
    last.op = "analyze_batch" /\ last.raised = "no" =>
        \E f \in [1..Len(last.result) -> 1..Len(last.messages)] :
            /\ \A i, j \in 1..Len(last.result) : i < j => f[i] < f[j]
            /\ \A j \in 1..Len(last.result) :
                   last.result[j] = <<last.messages[f[j]], last.tasks[f[j]].result>>

\* the second task finished before the first, and the output is in input order
C27_Witness ==
    /\ last.op = "analyze_batch"
    /\ Len(last.messages) = 2
    /\ last.messages[1] # last.messages[2]
    /\ last.tasks[2].order = 1
    /\ last.tasks[1].order = 2
    /\ Len(last.result) = 2
    /\ last.result[1][1] = last.messages[1]
    /\ last.result[2][1] = last.messages[2]

\* C28: a batch with max_concurrent >= 1 whose provider calls all return or fail
\* eventually returns; a task that finishes gives its permit back, also when its
\* call raised; and when the batch returns, every permit is back, no call is in
\* flight and every message was dispatched exactly once.
C28_BatchTerminates ==
    /\ (batch # NoBatch /\ batch.max_concurrent >= 1) ~> (last.op = "analyze_batch")
    /\ [][/\ (batch # NoBatch /\ batch' = batch /\ Done(tasks') # Done(tasks)
              => semaphore' = semaphore + 1)
          /\ (batch # NoBatch /\ batch' = NoBatch
              => /\ semaphore = batch.max_concurrent
                 /\ InFlight(tasks) = {}
                 /\ Done(tasks) = 1..Len(batch.messages)
                 /\ usage_stats.openai_calls + usage_stats.claude_calls
                        = batch.calls_before + Len(batch.messages))]_vars

\* a batch of two messages on one permit has returned although its first call
\* raised
C28_Witness ==
    /\ last.op = "analyze_batch"
    /\ last.max_concurrent = 1
    /\ Len(last.messages) = 2
    /\ last.tasks[1].result.raised = "ValueError"
    /\ last.tasks[2].order = 2
    /\ batch = NoBatch

\* C29: a batch of at least one message with max_concurrent = 0 admits no call:
\* every task stays before the semaphore, no usage counter changes and the batch
\* never returns.
C29_ZeroConcurrencyNeverAdmits ==
    /\ [](batch # NoBatch /\ batch.max_concurrent = 0 /\ Len(batch.messages) >= 1
          => /\ \A i \in 1..Len(tasks) : tasks[i].pc = "created"
             /\ usage_stats.openai_calls + usage_stats.claude_calls = batch.calls_before)
    /\ [][batch # NoBatch /\ batch.max_concurrent = 0 /\ Len(batch.messages) >= 1
          => /\ batch' = batch
             /\ tasks' = tasks
             /\ usage_stats' = usage_stats]_vars

\* the usage statistics were read while the batch waits
C29_Witness ==
    /\ batch # NoBatch
    /\ batch.max_concurrent = 0
    /\ Len(batch.messages) = 2
    /\ \A i \in 1..Len(tasks) : tasks[i].pc = "created"
    /\ last.op = "get_usage_stats"
    /\ last.result.total_calls = batch.calls_before

-----------------------------------------------------------------------------
(* The base weights *)

\* the normalized weights of a calculator that has made no call
FreshWeights(activity_type) ==
    _get_adjusted_weights(
        [sender_authority |-> 30, time_urgency |-> 20,
         content_importance |-> 30, personal_patterns |-> 20],
        [activity_type |-> activity_type])

\* C30: the weight adjustments never accumulate: after any sequence of calls the
\* base weights are 0.3, 0.2, 0.3 and 0.2, no call changes them, and the
\* normalized weights of a call are those of a fresh calculator for the same
\* activity kind.
C30_WeightsNeverAccumulate ==
    /\ [](/\ default_weights.sender_authority = 30
          /\ default_weights.time_urgency = 20
          /\ default_weights.content_importance = 30
          /\ default_weights.personal_patterns = 20
          /\ (last.op = "calculate_priority"
              => last.weights = FreshWeights(last.message.activity_type)))
    /\ [][default_weights' = default_weights]_vars

\* a direct message scored by a calculator that has made a call with patterns
\* before
C30_Witness ==
    /\ last.op = "calculate_priority"
    /\ last.supplied = NoneArg
    /\ user_patterns # <<>>
    /\ last.message.activity_type = "dm"
    /\ default_weights = DefaultWeights
    /\ last.weights["sender_authority"] * 115 = 40 * WeightOne


=============================================================================
